---- MODULE Spec2Model ----
(***************************************************************************)
(* Verification model of airline-customer-analytics:                       *)
(*   - the query-plan sanitizer and the chat flow of src/app/dashboard.py, *)
(*   - the grouped aggregation operations of compute_operation,            *)
(*   - the RFM feature builder of src/etl/customer_features.py,            *)
(*   - the filters of the dashboard and the banded operations of           *)
(*     compute_operation on the filtered slice,                            *)
(*   - main() of src/main.py with the polling loop of run_sql_file.        *)
(* JSON values are tagged records: [t |-> "str", s |-> ..], [t |-> "int",  *)
(* n |-> ..], [t |-> "float", tenths |-> ..], [t |-> "bool", b |-> ..],    *)
(* [t |-> "null"], [t |-> "list", l |-> <<..>>], [t |-> "map", m |-> rec]. *)
(* A float is held in tenths (37 is 3.7); [t |-> "nan"] is the float NaN.  *)
(***************************************************************************)
EXTENDS Integers, Sequences, FiniteSets, TLC

VARIABLES pc, plan_in, san_out, plannerOut, plan, planner_error, idx, passed,
          computed, compute_errors, df_slice, op_item, agg_out,
          cfa_df, clh_df, features, features_again, scores, segment,
          local_files, s3, runs, df_all, selection, kpis, session, query,
          steps

vars == <<pc, plan_in, san_out, plannerOut, plan, planner_error, idx, passed,
          computed, compute_errors, df_slice, op_item, agg_out,
          cfa_df, clh_df, features, features_again, scores, segment,
          local_files, s3, runs, df_all, selection, kpis, session, query,
          steps>>

\* Longest operations list of a plan handed to _sanitize_plan on its own.
MaxItems == 3
\* Longest operations list of a planner output in the chat flow.
MaxChatItems == 2
\* Largest integer whose decimal numeral int() is asked to parse.
MaxNumeral == 12
\* Largest loyalty_number of a scored customer row.
MaxCust == 3
\* Largest number of rows of a slice.
MaxRows == 3
\* Largest loyalty_number of a batch.
MaxLoyalty == 3
\* Largest number of Flight-Activity records of a batch.
MaxActivity == 3
\* Largest number of Loyalty-History records of a batch.
MaxHistory == 2
\* Largest number of runs of the pipeline.
MaxRuns == 2

NoVal == [t |-> "none"]

\* ------------------------------------------------------------------------
\* JSON values and the Python conversions applied to them
\* ------------------------------------------------------------------------
JStr(s) == [t |-> "str", s |-> s]
JInt(n) == [t |-> "int", n |-> n]
JFloat(tenths) == [t |-> "float", tenths |-> tenths]
JBool(b) == [t |-> "bool", b |-> b]
JNull == [t |-> "null"]
JNaN == [t |-> "nan"]
JList(l) == [t |-> "list", l |-> l]
JMap(m) == [t |-> "map", m |-> m]
EmptyMap == <<>>

Ok(v) == [status |-> "ok", val |-> v]
Raise(e) == [status |-> "raise", exc |-> e]

\* dict.get(key, default)
Get(m, key, default) == IF key \in DOMAIN m THEN m[key] ELSE default

\* Python truth value of a JSON value (bool(x), "x or y", "if x")
Truthy(v) ==
    CASE v.t = "str" -> v.s # ""
      [] v.t = "int" -> v.n # 0
      [] v.t = "float" -> v.tenths # 0
      [] v.t = "nan" -> TRUE
      [] v.t = "bool" -> v.b
      [] v.t = "null" -> FALSE
      [] v.t = "list" -> Len(v.l) > 0
      [] v.t = "map" -> DOMAIN v.m # {}

\* hash(x) succeeds: lists and dicts are unhashable
Hashable(v) == v.t \notin {"list", "map"}

Digit(d) ==
    CASE d = 0 -> "0" [] d = 1 -> "1" [] d = 2 -> "2" [] d = 3 -> "3"
      [] d = 4 -> "4" [] d = 5 -> "5" [] d = 6 -> "6" [] d = 7 -> "7"
      [] d = 8 -> "8" [] d = 9 -> "9"

RECURSIVE NatToStr(_)
NatToStr(n) == IF n < 10 THEN Digit(n) ELSE NatToStr(n \div 10) \o Digit(n % 10)

IntToStr(n) == IF n < 0 THEN "-" \o NatToStr(-n) ELSE NatToStr(n)

\* int(x): truncation toward zero for floats, decimal parsing for strings,
\* TypeError for None/list/dict, ValueError for NaN and non-numeric strings.
PyInt(v) ==
    CASE v.t = "int" -> Ok(v.n)
      [] v.t = "bool" -> Ok(IF v.b THEN 1 ELSE 0)
      [] v.t = "float" ->
            Ok(IF v.tenths >= 0 THEN v.tenths \div 10 ELSE -((-v.tenths) \div 10))
      [] v.t = "nan" -> Raise("ValueError")
      [] v.t = "str" ->
            IF \E n \in (-MaxNumeral)..MaxNumeral : IntToStr(n) = v.s
            THEN Ok(CHOOSE n \in (-MaxNumeral)..MaxNumeral : IntToStr(n) = v.s)
            ELSE Raise("ValueError")
      [] v.t \in {"null", "list", "map"} -> Raise("TypeError")

\* str.strip() on the strings the model uses; every other string of the
\* model has no leading or trailing blank.
Strip(s) ==
    CASE s = "  " -> ""
      [] s = " focus " -> "focus"
      [] s = " Loyal " -> "Loyal"
      [] OTHER -> s

\* repr(x) in place of str(x): a string keeps its quotes
PyStr_Repr(v) ==
    CASE v.t = "str" -> "'" \o v.s \o "'"
      [] v.t = "int" -> IntToStr(v.n)
      [] v.t = "bool" -> IF v.b THEN "True" ELSE "False"
      [] v.t = "null" -> "None"
      [] v.t = "nan" -> "nan"
      [] OTHER -> "[]"

\* str(x) for the scalar JSON values
PyStr(v) ==
    CASE v.t = "str" -> v.s
      [] v.t = "int" -> IntToStr(v.n)
      [] v.t = "bool" -> IF v.b THEN "True" ELSE "False"
      [] v.t = "null" -> "None"
      [] v.t = "nan" -> "nan"
      [] v.t = "float" ->
            (IF v.tenths < 0 THEN "-" ELSE "")
            \o NatToStr((IF v.tenths < 0 THEN -v.tenths ELSE v.tenths) \div 10)
            \o "." \o Digit((IF v.tenths < 0 THEN -v.tenths ELSE v.tenths) % 10)
      [] v.t = "list" /\ v.l = <<>> -> "[]"
      [] v.t = "map" /\ DOMAIN v.m = {} -> "{}"

\* the second argument without the floor of the first
Max2_NoFloor(a, b) == b

Max2(a, b) == IF a >= b THEN a ELSE b
Min2(a, b) == IF a <= b THEN a ELSE b

\* Clamp without its ceiling
Clamp_NoCeiling(n, hi) == Max2(1, n)

\* max(1, min(n, hi))
Clamp(n, hi) == Max2(1, Min2(n, hi))

\* ------------------------------------------------------------------------
\* Operation catalog
\* ------------------------------------------------------------------------
ALLOWED_OPS ==
    {"kpis_baseline", "kpis_slice", "summary_by_segment", "summary_by_province",
     "summary_by_card", "summary_by_gender", "top_risk_customers",
     "top_value_customers", "value_at_risk_by_segment",
     "value_at_risk_by_province", "churn_by_clv_tier", "do_nothing_scenario",
     "single_priority_initiative", "segment_comparison", "tenure_analysis",
     "revenue_impact", "correlation_drivers"}

SUMMARY_OPS ==
    [summary_by_segment |-> "rfm_segment", summary_by_province |-> "province",
     summary_by_card |-> "loyalty_card", summary_by_gender |-> "gender"]

VALUE_AT_RISK_OPS == {"value_at_risk_by_segment", "value_at_risk_by_province"}

DefaultIntent ==
    "Answer using baseline vs slice, identify highest priority segment and province by value at risk, and do-nothing impact."

FallbackIntent == "Answer the executive question using computed summaries."

GroupedItem(op, n, col) ==
    JMap([op |-> JStr(op), top_n |-> JInt(n), sort_by |-> JStr(col),
          ascending |-> JBool(FALSE)])

build_default_plan ==
    JMap([intent |-> JStr(DefaultIntent),
          operations |-> JList(<<
              JMap([op |-> JStr("kpis_baseline")]),
              JMap([op |-> JStr("kpis_slice")]),
              JMap([op |-> JStr("do_nothing_scenario")]),
              GroupedItem("value_at_risk_by_segment", 5, "total_value_at_risk"),
              GroupedItem("value_at_risk_by_province", 5, "total_value_at_risk"),
              GroupedItem("summary_by_segment", 5, "avg_churn_score"),
              GroupedItem("summary_by_province", 5, "avg_churn_score"),
              JMap([op |-> JStr("top_risk_customers"), top_n |-> JInt(15)])>>)])

\* ------------------------------------------------------------------------
\* _sanitize_plan
\* ------------------------------------------------------------------------
\* max(1, min(int(item.get("top_n", default)), hi))
SanTopN(m, default, hi) ==
    LET r == PyInt(Get(m, "top_n", JInt(default)))
    IN  IF r.status = "raise" THEN r ELSE Ok(JInt(Clamp(r.val, hi)))

\* the loop's filter without "or op in seen"
KeepItem_NoDedup(op, seen) == op.t = "str" /\ op.s \in ALLOWED_OPS

\* the loop's filter: "if op not in ALLOWED_OPS or op in seen: continue"
KeepItem(op, seen) == op.t = "str" /\ op.s \in ALLOWED_OPS /\ op.s \notin seen

\* the clean parameter set rebuilt for a recognized item
CleanItem(op, m) ==
    IF op \in DOMAIN SUMMARY_OPS THEN
        LET n == SanTopN(m, 10, 50)
        IN  IF n.status = "raise" THEN n
            ELSE Ok(JMap([op |-> JStr(op), top_n |-> n.val,
                          sort_by |-> Get(m, "sort_by", JStr("avg_churn_score")),
                          ascending |-> JBool(Truthy(Get(m, "ascending", JBool(FALSE))))]))
    ELSE IF op = "top_risk_customers" THEN
        LET n == SanTopN(m, 25, 100)
        IN  IF n.status = "raise" THEN n
            ELSE Ok(JMap([op |-> JStr(op), top_n |-> n.val]))
    ELSE IF op \in VALUE_AT_RISK_OPS THEN
        LET n == SanTopN(m, 10, 50)
        IN  IF n.status = "raise" THEN n
            ELSE Ok(JMap([op |-> JStr(op), top_n |-> n.val,
                          sort_by |-> Get(m, "sort_by", JStr("total_value_at_risk")),
                          ascending |-> JBool(Truthy(Get(m, "ascending", JBool(FALSE))))]))
    ELSE IF op = "segment_comparison" THEN
        Ok(JMap([op |-> JStr(op),
                 segment_a |-> JStr(Strip(PyStr(Get(m, "segment_a", JStr("Champions"))))),
                 segment_b |-> JStr(Strip(PyStr(Get(m, "segment_b", JStr("At Risk")))))]))
    ELSE IF op = "top_value_customers" THEN
        LET n == SanTopN(m, 25, 100)
            segment_filter == Get(m, "segment_filter", JNull)
        IN  IF n.status = "raise" THEN n
            ELSE IF Truthy(segment_filter)
            THEN Ok(JMap([op |-> JStr(op), top_n |-> n.val,
                          segment_filter |-> JStr(Strip(PyStr(segment_filter)))]))
            ELSE Ok(JMap([op |-> JStr(op), top_n |-> n.val]))
    ELSE Ok(JMap([op |-> JStr(op)]))

\* "for item in plan['operations']": items i..Len(items), with the ops kept
\* and the names seen so far.  (item or {}).get raises AttributeError on a
\* truthy item that is not a dict; "op not in ALLOWED_OPS" raises TypeError
\* on an unhashable op.
RECURSIVE SanitizeItems(_, _, _, _)
SanitizeItems(items, i, ops, seen) ==
    IF i > Len(items) THEN Ok(ops)
    ELSE LET item == items[i]
             m == IF Truthy(item) THEN item.m ELSE EmptyMap
             op == Get(m, "op", JNull)
         IN  IF Truthy(item) /\ item.t # "map" THEN Raise("AttributeError")
             ELSE IF ~Hashable(op) THEN Raise("TypeError")
             ELSE IF ~KeepItem(op, seen) THEN SanitizeItems(items, i + 1, ops, seen)
             ELSE LET clean == CleanItem(op.s, m)
                  IN  IF clean.status = "raise" THEN clean
                      ELSE SanitizeItems(items, i + 1, Append(ops, clean.val),
                                         seen \cup {op.s})

\* the intent without the "or <fallback text>"
SanIntent_NoFallback(m) == Strip(PyStr(Get(m, "intent", JStr(""))))

\* str(plan.get("intent", "")).strip() or "Answer the executive question..."
SanIntent(m) ==
    LET s == Strip(PyStr(Get(m, "intent", JStr(""))))
    IN  IF s # "" THEN s ELSE FallbackIntent

\* _sanitize_plan without "if not ops: return build_default_plan()"
_sanitize_plan_NoEmptyCheck(p) ==
    IF p.t # "map" \/ "operations" \notin DOMAIN p.m \/ p.m.operations.t # "list"
    THEN Ok(build_default_plan)
    ELSE LET r == SanitizeItems(p.m.operations.l, 1, <<>>, {})
         IN  IF r.status = "raise" THEN r
             ELSE Ok(JMap([intent |-> JStr(SanIntent(p.m)),
                           operations |-> JList(r.val)]))

_sanitize_plan(p) ==
    IF p.t # "map" \/ "operations" \notin DOMAIN p.m \/ p.m.operations.t # "list"
    THEN Ok(build_default_plan)
    ELSE LET r == SanitizeItems(p.m.operations.l, 1, <<>>, {})
         IN  IF r.status = "raise" THEN r
             ELSE IF r.val = <<>> THEN Ok(build_default_plan)
             ELSE Ok(JMap([intent |-> JStr(SanIntent(p.m)),
                           operations |-> JList(r.val)]))

\* ------------------------------------------------------------------------
\* Inputs of the sanitizer
\* ------------------------------------------------------------------------
\* top_n values a planner can emit for a grouped operation
TopNVals == {JInt(0), JInt(75), JFloat(37), JStr("12"), JStr("abc"), JNull}

SummaryItems ==
    {JMap([op |-> JStr("summary_by_segment")])}
    \cup {JMap([op |-> JStr("summary_by_segment"), top_n |-> n]) : n \in TopNVals}
    \cup {JMap([op |-> JStr("summary_by_segment"), sort_by |-> JStr("median_clv"),
                ascending |-> JStr("false")])}

TopItems ==
    {JMap([op |-> JStr("top_risk_customers")])}
    \cup {JMap([op |-> JStr("top_risk_customers"), top_n |-> n]) :
              n \in {JInt(500), JInt(-5)}}
    \cup {JMap([op |-> JStr("top_value_customers"), top_n |-> JInt(500),
                segment_filter |-> JStr(" Loyal ")]),
          JMap([op |-> JStr("top_value_customers"), segment_filter |-> JStr("  ")])}

ValueAtRiskItems ==
    {JMap([op |-> JStr("value_at_risk_by_province"), top_n |-> JInt(500),
           sort_by |-> JStr("province")]),
     JMap([op |-> JStr("value_at_risk_by_province"), top_n |-> JNaN])}

PlainItems ==
    {JMap([op |-> JStr("kpis_slice")]),
     JMap([op |-> JStr("do_nothing_scenario"), top_n |-> JInt(500)]),
     JMap([op |-> JStr("segment_comparison"), segment_a |-> JStr(" Loyal ")])}

\* items that are mappings but name no catalog operation
UnknownItems ==
    {JMap([op |-> JStr("drop_table")]), JMap([op |-> JInt(7)]), JMap(EmptyMap),
     JMap([op |-> JList(<<JStr("kpis_slice")>>)])}

\* items that are not mappings
NonMappingItems == {JNull, JStr("kpis_slice")}

MappingItems ==
    SummaryItems \cup TopItems \cup ValueAtRiskItems \cup PlainItems \cup UnknownItems

ItemSet == MappingItems \cup NonMappingItems

SeqsUpTo(S, n) == UNION {[1..k -> S] : k \in 0..n}

IntentVals == {JStr("focus"), JStr("  "), JInt(5)}

\* plans with an operations list over the items S: without an intent for
\* lists of up to n items, with each intent for lists of up to k items
ListPlans(S, n, k) ==
    {JMap([operations |-> JList(l)]) : l \in SeqsUpTo(S, n)}
    \cup {JMap([intent |-> i, operations |-> JList(l)]) :
              i \in IntentVals, l \in SeqsUpTo(S, k)}

\* structurally invalid plans
InvalidPlans ==
    {JStr("kpis_slice"), JNull, JInt(5), JList(<<JMap([op |-> JStr("kpis_slice")])>>),
     JMap(EmptyMap), JMap([intent |-> JStr("focus")]),
     JMap([operations |-> JStr("kpis_slice")]),
     JMap([operations |-> JMap([op |-> JStr("kpis_slice")])]),
     JMap([intent |-> JStr("focus"), operations |-> JNull])}

PlanInputs == InvalidPlans \cup ListPlans(ItemSet, MaxItems, 1)

\* ------------------------------------------------------------------------
\* Specification SpecSan: _sanitize_plan applied to one plan
\* ------------------------------------------------------------------------
ChatIdle ==
    /\ plannerOut = NoVal /\ plan = NoVal /\ planner_error = NoVal /\ idx = 0
    /\ passed = <<>> /\ computed = {} /\ compute_errors = <<>>

SanIdle == plan_in = NoVal /\ san_out = NoVal

AggIdle == df_slice = <<>> /\ op_item = NoVal /\ agg_out = NoVal

RfmIdle ==
    cfa_df = <<>> /\ clh_df = <<>> /\ features = NoVal /\ features_again = NoVal

SegIdle == scores = NoVal /\ segment = NoVal

PipeIdle == local_files = NoVal /\ s3 = NoVal /\ runs = 0

OpsIdle == df_all = NoVal /\ selection = NoVal

SessionIdle == kpis = NoVal /\ session = NoVal

AthenaIdle == query = NoVal /\ steps = <<>>

InitSan ==
    /\ pc = "san_start"
    /\ plan_in \in PlanInputs
    /\ san_out = NoVal
    /\ ChatIdle /\ AggIdle /\ RfmIdle /\ SegIdle /\ PipeIdle
    /\ OpsIdle /\ SessionIdle /\ AthenaIdle

SanitizeCall ==
    /\ pc = "san_start"
    /\ san_out' = _sanitize_plan(plan_in)
    /\ pc' = "san_done"
    /\ UNCHANGED <<plan_in, plannerOut, plan, planner_error, idx, passed, computed,
                   compute_errors, df_slice, op_item, agg_out, cfa_df, clh_df,
                   features>>
    /\ UNCHANGED <<features_again, scores, segment, local_files, s3, runs>>
    /\ UNCHANGED <<df_all, selection, kpis, session, query, steps>>

NextSan == SanitizeCall

SpecSan == InitSan /\ [][NextSan]_vars

\* ------------------------------------------------------------------------
\* Specification SpecChat: one question through the chat flow
\* ------------------------------------------------------------------------
\* operation items a planner can emit in the chat flow
ChatItems ==
    {JMap([op |-> JStr("summary_by_segment"), top_n |-> JInt(75)]),
     JMap([op |-> JStr("summary_by_segment"), top_n |-> JStr("abc")]),
     JMap([op |-> JStr("top_risk_customers"), top_n |-> JInt(500)]),
     JMap([op |-> JStr("top_value_customers"), top_n |-> JInt(500),
           segment_filter |-> JStr(" Loyal ")]),
     JMap([op |-> JStr("value_at_risk_by_province"), top_n |-> JInt(-5),
           sort_by |-> JStr("province")]),
     JMap([op |-> JStr("kpis_slice")]),
     JMap([op |-> JStr("drop_table")]),
     JMap([op |-> JList(<<JStr("kpis_slice")>>)]),
     JMap(EmptyMap), JNull, JStr("kpis_slice")}

\* what the planner call and the parsing of its text can come to:
\* invoke_claude raises; _extract_json finds no JSON object; json.loads
\* rejects the extracted text; json.loads returns a JSON value
PlannerOutcomes ==
    {[k |-> "exception"], [k |-> "no_json"], [k |-> "bad_json"]}
    \cup {[k |-> "json", v |-> p] :
              p \in InvalidPlans \cup ListPlans(ChatItems, MaxChatItems, MaxChatItems)}

\* try: plan = _sanitize_plan(json.loads(_extract_json(invoke_claude(..))))
\* except Exception as e: planner_error = str(e); plan = build_default_plan()
PlannerTry(o) ==
    IF o.k = "json" THEN _sanitize_plan(o.v)
    ELSE IF o.k = "exception" THEN Raise("ClientError")
    ELSE IF o.k = "no_json" THEN Raise("ValueError")
    ELSE Raise("JSONDecodeError")

\* keys the computed mapping holds before the loop
PrecomputedOps == {"kpis_baseline", "kpis_slice"}

\* the keys of the baseline mapping built on the unfiltered table
baseline ==
    {"customers", "avg_clv", "cancelled_rate", "avg_recency_days", "avg_frequency",
     "avg_monetary", "avg_tenure_months", "avg_churn_score"}

\* computed = {"kpis_baseline": baseline, "kpis_slice": {...}}: the keys of
\* the two mappings the chat flow builds before the loop
PrecomputedKpis ==
    [kpis_baseline |-> baseline,
     kpis_slice |-> {"customers", "avg_clv", "cancelled_rate", "avg_recency_days",
                     "avg_frequency", "avg_monetary", "avg_tenure_months",
                     "avg_churn_score"}]

\* messages of st.session_state.chat
Message(role, content) == [role |-> role, content |-> content]

\* filter selections a session can hold while a question is asked
ChatFilters ==
    {[provinces |-> {}, segments |-> {}, gender |-> "All", cards |-> {}],
     [provinces |-> {"Alberta"}, segments |-> {"Champions"}, gender |-> "Female",
      cards |-> {}]}

InitChat ==
    /\ pc = "chat_wait"
    /\ ChatIdle /\ SanIdle /\ AggIdle /\ RfmIdle /\ SegIdle /\ PipeIdle
    /\ OpsIdle /\ AthenaIdle
    /\ kpis = NoVal
    /\ session \in {[chat |-> <<Message("assistant", "Hi! How can I help you today?")>>,
                      filters |-> f, planner_calls |-> 0, narrator_calls |-> 0,
                      narrator_failed |-> FALSE] : f \in ChatFilters}

\* the question arrives and is appended to the chat, the planner is called
\* once and its plan sanitized, and the two KPI mappings are put in computed
PlanStep ==
    /\ pc = "chat_wait"
    /\ \E o \in PlannerOutcomes :
          LET r == PlannerTry(o)
          IN  /\ plannerOut' = o
              /\ plan' = IF r.status = "ok" THEN r.val ELSE build_default_plan
              /\ planner_error' = IF r.status = "ok" THEN NoVal ELSE JStr(r.exc)
    /\ computed' = PrecomputedOps
    /\ compute_errors' = <<>>
    /\ passed' = <<>>
    /\ idx' = 1
    /\ kpis' = PrecomputedKpis
    /\ session' = [session EXCEPT !.chat = Append(@, Message("user", "q")),
                                   !.planner_calls = @ + 1]
    /\ pc' = "chat_compute"
    /\ UNCHANGED <<plan_in, san_out, df_slice, op_item, agg_out, cfa_df, clh_df,
                   features>>
    /\ UNCHANGED <<features_again, scores, segment, local_files, s3, runs>>
    /\ UNCHANGED <<df_all, selection, query, steps>>

\* the loop without the try/except around compute_operation: the first
\* failure is recorded and ends the loop
ComputeStep_StopsAtFailure ==
    /\ pc = "chat_compute"
    /\ idx <= Len(plan.m.operations.l)
    /\ LET item == plan.m.operations.l[idx]
           op == item.m.op.s
       IN  IF op \in computed
           THEN /\ idx' = idx + 1
                /\ UNCHANGED <<passed, computed, compute_errors>>
           ELSE /\ passed' = Append(passed, item)
                /\ \E raised \in BOOLEAN :
                      IF raised
                      THEN /\ compute_errors' = Append(compute_errors, op)
                           /\ idx' = Len(plan.m.operations.l) + 1
                           /\ UNCHANGED computed
                      ELSE /\ computed' = computed \cup {op}
                           /\ idx' = idx + 1
                           /\ UNCHANGED compute_errors
    /\ UNCHANGED <<pc, plan_in, san_out, plannerOut, plan, planner_error,
                   df_slice, op_item, agg_out, cfa_df, clh_df, features>>
    /\ UNCHANGED <<features_again, scores, segment, local_files, s3, runs>>
    /\ UNCHANGED <<df_all, selection, kpis, session, query, steps>>

\* one iteration of "for item in plan['operations']"; whether
\* compute_operation raises depends on the data, which this specification
\* leaves open
ComputeStep ==
    /\ pc = "chat_compute"
    /\ idx <= Len(plan.m.operations.l)
    /\ LET item == plan.m.operations.l[idx]
           op == item.m.op.s
       IN  IF op \in computed
           THEN UNCHANGED <<passed, computed, compute_errors>>
           ELSE /\ passed' = Append(passed, item)
                /\ \E raised \in BOOLEAN :
                      IF raised
                      THEN /\ compute_errors' = Append(compute_errors, op)
                           /\ UNCHANGED computed
                      ELSE /\ computed' = computed \cup {op}
                           /\ UNCHANGED compute_errors
    /\ idx' = idx + 1
    /\ UNCHANGED <<pc, plan_in, san_out, plannerOut, plan, planner_error,
                   df_slice, op_item, agg_out, cfa_df, clh_df, features>>
    /\ UNCHANGED <<features_again, scores, segment, local_files, s3, runs>>
    /\ UNCHANGED <<df_all, selection, kpis, session, query, steps>>

\* the narrator call outside a try/except: its exception ends the script
\* run before an assistant message is appended
NarrateStep_NoExcept ==
    /\ pc = "chat_compute"
    /\ idx > Len(plan.m.operations.l)
    /\ \E failed \in BOOLEAN :
          session' =
              IF failed
              THEN [session EXCEPT !.narrator_calls = @ + 1,
                                   !.narrator_failed = TRUE]
              ELSE [session EXCEPT !.chat = Append(@, Message("assistant", "narration")),
                                   !.narrator_calls = @ + 1]
    /\ pc' = "chat_answered"
    /\ UNCHANGED <<plan_in, san_out, plannerOut, plan, planner_error, idx, passed,
                   computed, compute_errors, df_slice, op_item, agg_out, cfa_df,
                   clh_df, features>>
    /\ UNCHANGED <<features_again, scores, segment, local_files, s3, runs>>
    /\ UNCHANGED <<df_all, selection, kpis, query, steps>>

\* the loop is over: the computed summaries go to the narrator, which is
\* called once; its text, or "Agent call failed: ..." when the call raises,
\* is appended to the chat as the assistant's message
NarrateStep ==
    /\ pc = "chat_compute"
    /\ idx > Len(plan.m.operations.l)
    /\ \E failed \in BOOLEAN :
          session' =
              [session EXCEPT
                  !.chat = Append(@, Message("assistant",
                                             IF failed THEN "Agent call failed"
                                             ELSE "narration")),
                  !.narrator_calls = @ + 1,
                  !.narrator_failed = failed]
    /\ pc' = "chat_answered"
    /\ UNCHANGED <<plan_in, san_out, plannerOut, plan, planner_error, idx, passed,
                   computed, compute_errors, df_slice, op_item, agg_out, cfa_df,
                   clh_df, features>>
    /\ UNCHANGED <<features_again, scores, segment, local_files, s3, runs>>
    /\ UNCHANGED <<df_all, selection, kpis, query, steps>>

NextChat == PlanStep \/ ComputeStep \/ NarrateStep

SpecChat == InitChat /\ [][NextChat]_vars

\* ------------------------------------------------------------------------
\* Claims about the sanitizer and the chat flow
\* ------------------------------------------------------------------------
HasOpsList(p) ==
    p.t = "map" /\ "operations" \in DOMAIN p.m /\ p.m.operations.t = "list"

\* the op name of an item, "" when it has no string op
ItemName(it) ==
    IF it.t = "map" /\ "op" \in DOMAIN it.m /\ it.m.op.t = "str"
    THEN it.m.op.s ELSE ""

\* positions of the first occurrences of catalog names
FirstOccurrences(items) ==
    {i \in 1..Len(items) :
        /\ ItemName(items[i]) \in ALLOWED_OPS
        /\ \A j \in 1..(i - 1) : ItemName(items[j]) # ItemName(items[i])}

\* the items at the first occurrences, in input order
FirstItems(items) ==
    LET Keep(i) == i \in FirstOccurrences(items)
        positions == SelectSeq([i \in 1..Len(items) |-> i], Keep)
    IN  [k \in 1..Len(positions) |-> items[positions[k]]]

OpNames(ops) == [k \in 1..Len(ops) |-> ops[k].m.op.s]

OnlyMappingItems(p) ==
    HasOpsList(p) /\ \A i \in 1..Len(p.m.operations.l) : p.m.operations.l[i].t = "map"

\* the returned operations are the first occurrences of the catalog names,
\* in input order, each with the parameters rebuilt from that occurrence
KeepsFirstOccurrences(p, out) ==
    LET first == FirstItems(p.m.operations.l)
        ops == out.m.operations.l
    IN  /\ OpNames(ops) = OpNames(first)
        /\ \A k \in 1..Len(ops) :
              Ok(ops[k]) = CleanItem(first[k].m.op.s, first[k].m)

\* the bound of top_n for an operation name, 0 when the claim gives none
TopNCeiling(op) ==
    IF op \in DOMAIN SUMMARY_OPS \cup VALUE_AT_RISK_OPS THEN 50
    ELSE IF op \in {"top_risk_customers", "top_value_customers"} THEN 100
    ELSE 0

\* C1: in the chat flow every item passed to compute_operation names an
\* operation of ALLOWED_OPS, and a top_n it carries is an integer in [1,50]
\* for summary_by_* and value_at_risk_by_* and in [1,100] for
\* top_risk_customers and top_value_customers, whatever the planner returned.
C1_PassedItemsBounded ==
    \A i \in 1..Len(passed) :
        LET it == passed[i]
        IN  /\ it.t = "map" /\ "op" \in DOMAIN it.m /\ it.m.op.t = "str"
            /\ it.m.op.s \in ALLOWED_OPS
            /\ ("top_n" \in DOMAIN it.m /\ TopNCeiling(it.m.op.s) > 0) =>
                  /\ it.m.top_n.t = "int"
                  /\ it.m.top_n.n >= 1
                  /\ it.m.top_n.n <= TopNCeiling(it.m.op.s)

\* a planner plan asking for top_n 75 and 500 reached compute_operation
\* with 50 and 100
C1_Witness ==
    /\ plannerOut # NoVal /\ plannerOut.k = "json" /\ planner_error = NoVal
    /\ Len(passed) = 2
    /\ passed[1].m.op.s = "summary_by_segment" /\ passed[1].m.top_n = JInt(50)
    /\ passed[2].m.op.s = "top_risk_customers" /\ passed[2].m.top_n = JInt(100)
    /\ plannerOut.v.m.operations.l[1].m.top_n = JInt(75)

\* C2 as stated: for a plan whose operations are all mappings, the returned
\* plan holds exactly the distinct catalog names of the input, in order of
\* first occurrence, with the parameters of the first occurrence.
C2_Original ==
    (pc = "san_done" /\ OnlyMappingItems(plan_in) /\ san_out.status = "ok")
        => KeepsFirstOccurrences(plan_in, san_out.val)

\* C2 amended: the same, for plans in which at least one item names a
\* catalog operation (with none, the default plan comes back instead).
C2_FirstOccurrencesKept ==
    (/\ pc = "san_done" /\ OnlyMappingItems(plan_in) /\ san_out.status = "ok"
     /\ FirstOccurrences(plan_in.m.operations.l) # {})
        => KeepsFirstOccurrences(plan_in, san_out.val)

\* one valid operation, a duplicate of it with another top_n and one
\* unknown name give one operation, with the first occurrence's top_n
C2_Witness ==
    /\ pc = "san_done" /\ HasOpsList(plan_in) /\ san_out.status = "ok"
    /\ plan_in.m.operations.l =
          <<JMap([op |-> JStr("top_risk_customers"), top_n |-> JInt(-5)]),
            JMap([op |-> JStr("top_risk_customers"), top_n |-> JInt(500)]),
            JMap([op |-> JStr("drop_table")])>>
    /\ san_out.val.m.operations.l =
          <<JMap([op |-> JStr("top_risk_customers"), top_n |-> JInt(1)])>>

\* every item of the list is dropped by the loop: it is falsy or a mapping,
\* and its op is hashable and names no catalog operation
NoItemSurvives(items) ==
    \A i \in 1..Len(items) :
        /\ ~Truthy(items[i]) \/ items[i].t = "map"
        /\ items[i].t = "map" => Hashable(Get(items[i].m, "op", JNull))
        /\ ItemName(items[i]) \notin ALLOWED_OPS

\* C3: _sanitize_plan returns build_default_plan() when its input is not a
\* mapping, has no operations key, has operations that are not a list, or
\* has a list from which no item survives.
C3_DefaultPlanOnInvalid ==
    (pc = "san_done" /\ (~HasOpsList(plan_in) \/ NoItemSurvives(plan_in.m.operations.l)))
        => san_out = Ok(build_default_plan)

\* a plan with an intent of its own and only unknown items came back as the
\* default plan
C3_Witness ==
    /\ pc = "san_done" /\ HasOpsList(plan_in)
    /\ Len(plan_in.m.operations.l) = 2
    /\ NoItemSurvives(plan_in.m.operations.l)
    /\ san_out = Ok(build_default_plan)

\* C4 as stated: on every mapping with an operations list _sanitize_plan
\* returns a plan without raising, also with items that are not mappings,
\* ops that are not strings and top_n values that are not numbers.
C4_Original ==
    (pc = "san_done" /\ HasOpsList(plan_in)) => san_out.status = "ok"

\* the planner output holds an intent string and an operations list of
\* mapping items that have a string op
ValidPlannerSchema(o) ==
    /\ o.k = "json" /\ HasOpsList(o.v)
    /\ "intent" \in DOMAIN o.v.m /\ o.v.m.intent.t = "str"
    /\ \A i \in 1..Len(o.v.m.operations.l) : ItemName(o.v.m.operations.l[i]) # ""

\* C5 as stated: a planner output without both an intent string and an
\* operations list of {op, params} items is replaced by the default plan.
C5_Original ==
    (pc # "chat_wait" /\ ~ValidPlannerSchema(plannerOut)) => plan = build_default_plan

\* C5 amended: the default plan is executed when the planner call or the
\* parsing fails or the output is not a mapping with an operations list;
\* an output whose operations list keeps an item is executed with its own
\* sanitized operations also when the intent is missing, blank or not a
\* string: the intent is then the fallback text or str() of the value.
C5_DefaultPlanOnlyWithoutOperations ==
    pc # "chat_wait" =>
        /\ plannerOut.k # "json" => planner_error # NoVal
        /\ (plannerOut.k # "json" \/ ~HasOpsList(plannerOut.v)) => plan = build_default_plan
        /\ (/\ plannerOut.k = "json" /\ OnlyMappingItems(plannerOut.v)
            /\ planner_error = NoVal
            /\ FirstOccurrences(plannerOut.v.m.operations.l) # {}) =>
              /\ KeepsFirstOccurrences(plannerOut.v, plan)
              /\ "intent" \notin DOMAIN plannerOut.v.m => plan.m.intent = JStr(FallbackIntent)
              /\ Get(plannerOut.v.m, "intent", JNull) = JStr("  ") =>
                    plan.m.intent = JStr(FallbackIntent)
              /\ Get(plannerOut.v.m, "intent", JNull) = JInt(5) => plan.m.intent = JStr("5")

\* a planner output with a valid operation and no intent was executed with
\* its own operation, not with the default plan
C5_Witness ==
    /\ pc = "chat_answered" /\ plannerOut.k = "json" /\ HasOpsList(plannerOut.v)
    /\ "intent" \notin DOMAIN plannerOut.v.m
    /\ plan.m.intent = JStr(FallbackIntent)
    /\ OpNames(plan.m.operations.l) = <<"top_risk_customers">>
    /\ "top_risk_customers" \in computed

\* ------------------------------------------------------------------------
\* Scored customer rows and slices (load_customer_scored, df_base)
\* ------------------------------------------------------------------------
\* a null of a categorical column
NA == "<NA>"

\* the attribute values of the rows: group labels, value, risk and activity
Profiles ==
    {[gender |-> "Male", province |-> "Alberta", loyalty_card |-> "Star",
      clv |-> 9, rfm_segment |-> "Loyal", churn_score |-> 1, recency |-> 2,
      frequency |-> 5, monetary |-> 30, tenure_months |-> 12, is_cancelled |-> FALSE],
     [gender |-> "Female", province |-> "Ontario", loyalty_card |-> "Nova",
      clv |-> 2, rfm_segment |-> "Dormant", churn_score |-> 4, recency |-> 20,
      frequency |-> 0, monetary |-> 0, tenure_months |-> 40, is_cancelled |-> TRUE],
     [gender |-> "Female", province |-> "Quebec", loyalty_card |-> "Aurora",
      clv |-> 5, rfm_segment |-> "At Risk", churn_score |-> 2, recency |-> 8,
      frequency |-> 3, monetary |-> 10, tenure_months |-> 3, is_cancelled |-> FALSE],
     [gender |-> "Male", province |-> "Alberta", loyalty_card |-> "Nova",
      clv |-> 1, rfm_segment |-> "Dormant", churn_score |-> 6, recency |-> 14,
      frequency |-> 1, monetary |-> 4, tenure_months |-> 0, is_cancelled |-> TRUE],
     [gender |-> "Female", province |-> NA, loyalty_card |-> "Star",
      clv |-> 4, rfm_segment |-> NA, churn_score |-> 3, recency |-> 0,
      frequency |-> 9, monetary |-> 50, tenure_months |-> 70, is_cancelled |-> FALSE]}

ScoredRows ==
    {[loyalty_number |-> n] @@ pr : n \in 1..MaxCust, pr \in Profiles}

\* the non-empty slices: the rows are held as a set, their order in the
\* frame only matters for ties of a sort, which are left open below
Slices == {S \in SUBSET ScoredRows : Cardinality(S) \in 1..MaxRows}

\* ------------------------------------------------------------------------
\* Group aggregates (DataFrame.groupby(...).agg(...))
\* ------------------------------------------------------------------------
\* a number held as the fraction num/den, den > 0
Frac(n, d) == [num |-> n, den |-> d]

FracLess(a, b) == a.num * b.den < b.num * a.den

RECURSIVE SumCol(_, _)
SumCol(rows, col) ==
    IF rows = {} THEN 0
    ELSE LET r == CHOOSE x \in rows : TRUE
         IN  r[col] + SumCol(rows \ {r}, col)

\* the values of a column in ascending order
RECURSIVE SortedVals(_, _)
SortedVals(rows, col) ==
    IF rows = {} THEN <<>>
    ELSE LET r == CHOOSE x \in rows : \A y \in rows : x[col] <= y[col]
         IN  <<r[col]>> \o SortedVals(rows \ {r}, col)

Mean(rows, col) == Frac(SumCol(rows, col), Cardinality(rows))

Median(rows, col) ==
    LET v == SortedVals(rows, col)
        n == Len(v)
    IN  IF n % 2 = 1 THEN Frac(v[(n + 1) \div 2], 1)
        ELSE Frac(v[n \div 2] + v[n \div 2 + 1], 2)

\* agg "nunique" of loyalty_number
NUnique(rows) == Cardinality({r.loyalty_number : r \in rows})

\* mean of the boolean is_cancelled
CancelledRate(rows) ==
    Frac(Cardinality({r \in rows : r.is_cancelled}), Cardinality(rows))

\* the group keys of a groupby: null keys are left out
GroupKeys(slice, group_col) == {r[group_col] : r \in slice} \ {NA}

GroupRows(slice, group_col, g) == {r \in slice : r[group_col] = g}

\* one row of the summary_by_* frame, with retention_rate added
SummaryRow(slice, group_col, g) ==
    LET rows == GroupRows(slice, group_col, g)
        rate == CancelledRate(rows)
    IN  [group |-> g,
         customers |-> Frac(NUnique(rows), 1),
         avg_clv |-> Mean(rows, "clv"),
         median_clv |-> Median(rows, "clv"),
         avg_churn_score |-> Mean(rows, "churn_score"),
         avg_recency_days |-> Frac(SumCol(rows, "recency") * 30, Cardinality(rows)),
         avg_frequency |-> Mean(rows, "frequency"),
         avg_monetary |-> Mean(rows, "monetary"),
         avg_tenure_months |-> Mean(rows, "tenure_months"),
         cancelled_rate |-> rate,
         retention_rate |-> Frac(rate.den - rate.num, rate.den)]

\* one row of the value_at_risk_by_* frame, with retention_rate added
ValueAtRiskRow(slice, group_col, g) ==
    LET rows == GroupRows(slice, group_col, g)
        rate == CancelledRate(rows)
    IN  [group |-> g,
         total_value_at_risk |-> Frac(SumCol(rows, "churn_score"), 1),
         total_clv |-> Frac(SumCol(rows, "clv"), 1),
         customers |-> Frac(NUnique(rows), 1),
         avg_churn_score |-> Mean(rows, "churn_score"),
         avg_clv |-> Mean(rows, "clv"),
         median_clv |-> Median(rows, "clv"),
         cancelled_rate |-> rate,
         retention_rate |-> Frac(rate.den - rate.num, rate.den)]

\* the labels of the model in the order of Python's string comparison
LabelOrder ==
    <<"Alberta", "At Risk", "Aurora", "Champions", "Dormant", "Female", "Loyal",
      "Male", "Nova", "Ontario", "Potential", "Quebec", "Star">>

LabelRank(a) == CHOOSE i \in 1..Len(LabelOrder) : LabelOrder[i] = a

\* row a sorts strictly before row b by the column col (ascending)
RowLess(a, b, col, group_col) ==
    IF col = group_col THEN LabelRank(a.group) < LabelRank(b.group)
    ELSE FracLess(a[col], b[col])

\* the rows in any order
SortValues_Unsorted(rows, col, group_col, ascending) ==
    {f \in [1..Cardinality(rows) -> rows] :
        \A i, j \in 1..Cardinality(rows) : i # j => f[i] # f[j]}

\* the orders sort_values can give the rows: every arrangement that is
\* sorted by the column; rows with equal keys may come in any order
SortValues(rows, col, group_col, ascending) ==
    {f \in [1..Cardinality(rows) -> rows] :
        /\ \A i, j \in 1..Cardinality(rows) : i # j => f[i] # f[j]
        /\ \A i \in 1..(Cardinality(rows) - 1) :
              IF ascending THEN ~RowLess(f[i + 1], f[i], col, group_col)
              ELSE ~RowLess(f[i], f[i + 1], col, group_col)}

\* head(n) that keeps one row too few
HeadN_OffByOne(f, n) == SubSeq(f, 1, Min2(n, Len(f)) - 1)

\* DataFrame.head(n)
HeadN(f, n) == SubSeq(f, 1, Min2(n, Len(f)))

\* ------------------------------------------------------------------------
\* compute_operation: summary_by_* and value_at_risk_by_*
\* ------------------------------------------------------------------------
SummaryMetrics ==
    {"customers", "avg_clv", "median_clv", "avg_churn_score", "avg_recency_days",
     "avg_frequency", "avg_monetary", "avg_tenure_months", "cancelled_rate",
     "retention_rate"}

ValueAtRiskMetrics ==
    {"total_value_at_risk", "total_clv", "customers", "avg_churn_score", "avg_clv",
     "median_clv", "cancelled_rate", "retention_rate"}

IsSummaryOp(op) == op \in DOMAIN SUMMARY_OPS

GroupColOf(op) ==
    IF IsSummaryOp(op) THEN SUMMARY_OPS[op]
    ELSE IF op = "value_at_risk_by_segment" THEN "rfm_segment"
    ELSE "province"

\* out.columns after reset_index and the retention_rate assignment
OutColumns(op) ==
    {GroupColOf(op)} \cup (IF IsSummaryOp(op) THEN SummaryMetrics ELSE ValueAtRiskMetrics)

DefaultSort(op) == IF IsSummaryOp(op) THEN "avg_churn_score" ELSE "total_value_at_risk"

\* sort_by = op_item.get("sort_by", default);
\* if sort_by not in out.columns: sort_by = default
EffectiveSort(op, m) ==
    LET sort_by == Get(m, "sort_by", JStr(DefaultSort(op)))
    IN  IF sort_by.t = "str" /\ sort_by.s \in OutColumns(op) THEN sort_by.s
        ELSE DefaultSort(op)

GroupFrame(op, slice) ==
    {IF IsSummaryOp(op) THEN SummaryRow(slice, GroupColOf(op), g)
     ELSE ValueAtRiskRow(slice, GroupColOf(op), g) :
        g \in GroupKeys(slice, GroupColOf(op))}

\* the results compute_operation can return for a grouped item, or the
\* exception it raises: "sort_by not in out.columns" hashes sort_by
GroupedResults(m, slice) ==
    LET op == m.op.s
        n == SanTopN(m, 10, 50)
        ascending == Truthy(Get(m, "ascending", JBool(FALSE)))
    IN  IF ~Hashable(Get(m, "sort_by", JNull)) THEN {Raise("TypeError")}
        ELSE IF n.status = "raise" THEN {n}
        ELSE {Ok(HeadN(f, n.val.n)) :
                f \in SortValues(GroupFrame(op, slice), EffectiveSort(op, m),
                                 GroupColOf(op), ascending)}

IsGroupedOp(op) == IsSummaryOp(op) \/ op \in VALUE_AT_RISK_OPS

\* ------------------------------------------------------------------------
\* Specification SpecAgg: one sanitized item computed on one slice
\* ------------------------------------------------------------------------
\* sort_by values of a planner item
SortByVals ==
    {JStr("avg_clv"), JStr("customers"), JStr("cancelled_rate"), JStr("province"),
     JStr("rfm_segment"), JStr("median_clv"), JStr("retention_rate"), JStr("clv"),
     JInt(5), JList(<<JStr("avg_clv")>>)}

\* the parameters of the grouped items a planner emits
GroupedParams ==
    {EmptyMap, [ascending |-> JBool(TRUE)]}
    \cup {[top_n |-> JInt(n)] : n \in {1, 2, 75}}
    \cup {[top_n |-> JInt(1), ascending |-> JBool(TRUE)]}
    \cup {[sort_by |-> c] : c \in SortByVals}
    \cup {[sort_by |-> c, ascending |-> JBool(TRUE)] :
             c \in {JStr("province"), JStr("rfm_segment"), JStr("median_clv")}}

GroupedRawItems ==
    {JMap([op |-> JStr(op)] @@ prm) :
        op \in {"summary_by_segment", "summary_by_province",
                "value_at_risk_by_segment", "value_at_risk_by_province"},
        prm \in GroupedParams}
    \cup {JMap([op |-> JStr(op)]) : op \in {"summary_by_card", "summary_by_gender"}}

\* the items as _sanitize_plan hands them on
AggItems == {CleanItem(it.m.op.s, it.m).val : it \in GroupedRawItems}

InitAgg ==
    /\ pc = "agg_start"
    /\ df_slice \in Slices
    /\ op_item \in AggItems
    /\ agg_out = NoVal
    /\ ChatIdle /\ SanIdle /\ RfmIdle /\ SegIdle /\ PipeIdle
    /\ OpsIdle /\ SessionIdle /\ AthenaIdle

\* compute_operation(op_item, df, df_slice, baseline) for a grouped item
ComputeGrouped ==
    /\ pc = "agg_start"
    /\ IsGroupedOp(op_item.m.op.s)
    /\ agg_out' \in GroupedResults(op_item.m, df_slice)
    /\ pc' = "agg_done"
    /\ UNCHANGED <<plan_in, san_out, plannerOut, plan, planner_error, idx, passed,
                   computed, compute_errors, df_slice, op_item, cfa_df, clh_df,
                   features>>
    /\ UNCHANGED <<features_again, scores, segment, local_files, s3, runs>>
    /\ UNCHANGED <<df_all, selection, kpis, session, query, steps>>

NextAgg == ComputeGrouped

SpecAgg == InitAgg /\ [][NextAgg]_vars

\* ------------------------------------------------------------------------
\* Claims about the grouped operations
\* ------------------------------------------------------------------------
\* SORT_BY OPTIONS the planner prompt gives for the summary operations
SummarySortOptions ==
    {"customers", "avg_clv", "avg_churn_score", "avg_recency_days", "avg_frequency",
     "avg_monetary", "avg_tenure_months", "cancelled_rate"}

\* SORT_BY OPTIONS the planner prompt gives for the value_at_risk operations
ValueAtRiskSortOptions ==
    {"total_value_at_risk", "total_clv", "customers", "avg_churn_score", "avg_clv",
     "cancelled_rate"}

SortOptions(op) ==
    IF IsSummaryOp(op) THEN SummarySortOptions ELSE ValueAtRiskSortOptions

\* the sequence of result rows is ordered by the metric col
SortedByMetric(out, col, ascending) ==
    \A i \in 1..(Len(out) - 1) :
        IF ascending THEN ~FracLess(out[i + 1][col], out[i][col])
        ELSE ~FracLess(out[i][col], out[i + 1][col])

\* C6 as stated: a sort_by outside the operation's list of sort options
\* (the grouping column, median_clv and retention_rate included) gives a
\* result sorted by avg_churn_score for summary_by_* and by
\* total_value_at_risk for value_at_risk_by_*.
C6_Original ==
    (/\ pc = "agg_done" /\ agg_out.status = "ok"
     /\ ~(op_item.m.sort_by.t = "str"
          /\ op_item.m.sort_by.s \in SortOptions(op_item.m.op.s)))
        => SortedByMetric(agg_out.val, DefaultSort(op_item.m.op.s),
                          op_item.m.ascending.b)

RECURSIVE SumCustomers(_)
SumCustomers(out) ==
    IF out = <<>> THEN 0 ELSE out[1].customers.num + SumCustomers(Tail(out))

\* no null in the grouping column and no loyalty_number on two rows
CountableSlice(slice, group_col) ==
    /\ \A r \in slice : r[group_col] # NA
    /\ \A r1, r2 \in slice : r1.loyalty_number = r2.loyalty_number => r1 = r2

\* C7 as stated: on a slice without nulls in the grouping column and with
\* unique loyalty numbers, the customers of the returned groups add up to
\* the distinct customers of the slice, for every admissible top_n.
C7_Original ==
    (/\ pc = "agg_done" /\ agg_out.status = "ok"
     /\ CountableSlice(df_slice, GroupColOf(op_item.m.op.s)))
        => SumCustomers(agg_out.val) = NUnique(df_slice)

\* C7 amended: the customers add up to the distinct customers of the slice
\* when the slice has at most top_n groups; with more groups the result
\* holds top_n groups and the sum counts the customers of these groups.
C7_CustomersSumUpToTopN ==
    (/\ pc = "agg_done" /\ agg_out.status = "ok"
     /\ CountableSlice(df_slice, GroupColOf(op_item.m.op.s)))
        => LET col == GroupColOf(op_item.m.op.s)
               groups == GroupKeys(df_slice, col)
               top_n == op_item.m.top_n.n
               returned == {agg_out.val[i].group : i \in 1..Len(agg_out.val)}
           IN  /\ Cardinality(groups) <= top_n =>
                     SumCustomers(agg_out.val) = NUnique(df_slice)
               /\ Len(agg_out.val) = Min2(top_n, Cardinality(groups))
               /\ SumCustomers(agg_out.val) =
                     NUnique({r \in df_slice : r[col] \in returned})

\* three customers in three provinces, all returned under the default top_n
C7_Witness ==
    /\ pc = "agg_done" /\ agg_out.status = "ok"
    /\ op_item.m.op.s = "summary_by_province" /\ op_item.m.top_n = JInt(10)
    /\ CountableSlice(df_slice, "province")
    /\ Cardinality(GroupKeys(df_slice, "province")) = 3
    /\ SumCustomers(agg_out.val) = 3

\* ------------------------------------------------------------------------
\* build_customer_features (src/etl/customer_features.py)
\* ------------------------------------------------------------------------
\* activity_date: the first day of (year, month)
Periods ==
    {[year |-> 2016, month |-> 11], [year |-> 2018, month |-> 3],
     [year |-> 2018, month |-> 12]}

\* total_flights and distance of one activity record
Payloads ==
    {[total_flights |-> 0, distance |-> 50], [total_flights |-> 3, distance |-> 100]}

ActivityRecords ==
    {[loyalty_number |-> n, year |-> p.year, month |-> p.month] @@ pl :
        n \in 1..MaxLoyalty, p \in Periods, pl \in Payloads}

\* one record per customer and period
ActivityTables ==
    {A \in SUBSET ActivityRecords :
        /\ Cardinality(A) \in 1..MaxActivity
        /\ \A a, b \in A :
              (a.loyalty_number = b.loyalty_number /\ a.year = b.year
               /\ a.month = b.month) => a = b}

\* the RFM fixture: customer 1 with 2, 0 and 5 flights and distances 100, 0
\* and 400 in months 1..3 of 2018, alone and next to a second customer
FixtureRecords ==
    {[loyalty_number |-> 1, year |-> 2018, month |-> 1, total_flights |-> 2,
      distance |-> 100],
     [loyalty_number |-> 1, year |-> 2018, month |-> 2, total_flights |-> 0,
      distance |-> 0],
     [loyalty_number |-> 1, year |-> 2018, month |-> 3, total_flights |-> 5,
      distance |-> 400]}

FixtureTables ==
    {FixtureRecords,
     FixtureRecords \cup {[loyalty_number |-> 2, year |-> 2018, month |-> 3,
                           total_flights |-> 3, distance |-> 100]}}

ActivityInputs == ActivityTables \cup FixtureTables

\* the attributes of the history records; cancellation_year 0 is a null
HistoryProfiles ==
    <<[province |-> "Ontario", city |-> "Toronto", gender |-> "Female",
       education |-> "Bachelor", loyalty_card |-> "Star", clv |-> 9,
       enrollment_year |-> 2017, enrollment_month |-> 1,
       cancellation_year |-> 0, cancellation_month |-> 0],
      [province |-> "Quebec", city |-> "Montreal", gender |-> "Male",
       education |-> "College", loyalty_card |-> "Nova", clv |-> 2,
       enrollment_year |-> 2017, enrollment_month |-> 8,
       cancellation_year |-> 2018, cancellation_month |-> 2],
      [province |-> "Alberta", city |-> "Edmonton", gender |-> "Male",
       education |-> "Doctor", loyalty_card |-> "Aurora", clv |-> 5,
       enrollment_year |-> 2019, enrollment_month |-> 1,
       cancellation_year |-> 0, cancellation_month |-> 0]>>

\* the history record of customer n: an active member, a cancelled member
\* and a member enrolled after the last activity period, in turn
HistoryRecords ==
    {[loyalty_number |-> n] @@ HistoryProfiles[((n - 1) % Len(HistoryProfiles)) + 1] :
        n \in 1..MaxLoyalty}

\* loyalty_number is unique in the history table
HistoryTables ==
    {H \in SUBSET HistoryRecords :
        /\ Cardinality(H) <= MaxHistory
        /\ \A a, b \in H : a.loyalty_number = b.loyalty_number => a = b}

PeriodOf(r) == [year |-> r.year, month |-> r.month]

\* later is not before earlier (datetime comparison)
PeriodLeq(earlier, later) ==
    earlier.year < later.year
    \/ (earlier.year = later.year /\ earlier.month <= later.month)

months_diff(later, earlier) ==
    (later.year - earlier.year) * 12 + (later.month - earlier.month)

\* the values of r_score, f_score and m_score
ScoreRange == 1..5

\* the Champions rule without its test of m
assign_rfm_segment_NoMonetary(r, f, m) ==
    IF r >= 4 /\ f >= 4 THEN "Champions"
    ELSE IF r >= 3 /\ f >= 3 THEN "Loyal"
    ELSE IF r <= 2 /\ f >= 3 THEN "At Risk"
    ELSE IF r <= 2 /\ f <= 2 THEN "Dormant"
    ELSE "Potential"

assign_rfm_segment(r, f, m) ==
    IF r >= 4 /\ f >= 4 /\ m >= 4 THEN "Champions"
    ELSE IF r >= 3 /\ f >= 3 THEN "Loyal"
    ELSE IF r <= 2 /\ f >= 3 THEN "At Risk"
    ELSE IF r <= 2 /\ f <= 2 THEN "Dormant"
    ELSE "Potential"

\* the maximum taken over the records with flights only
MaxActivityDate_FlownOnly(cfa) ==
    CHOOSE p \in {PeriodOf(a) : a \in {b \in cfa : b.total_flights > 0}} :
        \A a \in cfa : a.total_flights > 0 => PeriodLeq(PeriodOf(a), p)

\* cfa_df["activity_date"].max()
MaxActivityDate(cfa) ==
    CHOOSE p \in {PeriodOf(a) : a \in cfa} :
        \A a \in cfa : PeriodLeq(PeriodOf(a), p)

\* cfa_df[["loyalty_number"]].drop_duplicates()
Customers(cfa) == {a.loyalty_number : a \in cfa}

\* the records with total_flights > 0
Flown(cfa) == {a \in cfa : a.total_flights > 0}

\* sort_values("activity_date").groupby("loyalty_number").last(): the
\* latest period with flights of a customer that has one
LastFlown(cfa, n) ==
    CHOOSE p \in {PeriodOf(a) : a \in {b \in Flown(cfa) : b.loyalty_number = n}} :
        \A a \in Flown(cfa) : a.loyalty_number = n => PeriodLeq(PeriodOf(a), p)

\* recent_activity: customer -> recency, for the customers with flights
RecentActivity(cfa) ==
    [n \in Customers(Flown(cfa)) |->
        months_diff(MaxActivityDate(cfa), LastFlown(cfa, n))]

SetMax(S) == CHOOSE x \in S : \A y \in S : y <= x

\* customer_recency["recency"] after the left merge and
\* fillna(max_recency + 1): a null stays when no customer has a recency
CustomerRecency(cfa) ==
    LET recent == RecentActivity(cfa)
    IN  [n \in Customers(cfa) |->
            IF n \in DOMAIN recent THEN JInt(recent[n])
            ELSE IF DOMAIN recent = {} THEN JNaN
            ELSE JInt(SetMax({recent[k] : k \in DOMAIN recent}) + 1)]

\* pd.cut(recency, bins=[-1, 1, 3, 6, 12, 24], labels=[5, 4, 3, 2, 1])
CutRecency(x) ==
    IF x > -1 /\ x <= 1 THEN JInt(5)
    ELSE IF x > 1 /\ x <= 3 THEN JInt(4)
    ELSE IF x > 3 /\ x <= 6 THEN JInt(3)
    ELSE IF x > 6 /\ x <= 12 THEN JInt(2)
    ELSE IF x > 12 /\ x <= 24 THEN JInt(1)
    ELSE JNaN

RECURSIVE SumField(_, _)
SumField(recs, field) ==
    IF recs = {} THEN 0
    ELSE LET r == CHOOSE x \in recs : TRUE
         IN  r[field] + SumField(recs \ {r}, field)

\* groupby("loyalty_number").agg(frequency=("total_flights", "sum"))
CustomerFrequency(cfa) ==
    [n \in Customers(cfa) |->
        SumField({a \in cfa : a.loyalty_number = n}, "total_flights")]

\* the sum of distance over all the records of the customer
CustomerMonetary_AllPeriods(cfa) ==
    [n \in Customers(cfa) |->
        SumField({a \in cfa : a.loyalty_number = n}, "distance")]

\* the sum of distance over the records with flights, 0 without any
CustomerMonetary(cfa) ==
    [n \in Customers(cfa) |->
        SumField({a \in Flown(cfa) : a.loyalty_number = n}, "distance")]

\* the values of a customer -> value map in ascending order
RECURSIVE SortedValues(_, _)
SortedValues(val, keys) ==
    IF keys = {} THEN <<>>
    ELSE LET k == CHOOSE x \in keys : \A y \in keys : val[x] <= val[y]
         IN  <<val[k]>> \o SortedValues(val, keys \ {k})

\* q times the quantile k/q of the sorted values v (linear interpolation
\* between the two neighbours of position k*(n-1)/q)
QuantileTimes(v, k, q) ==
    LET pos == k * (Len(v) - 1)
        lo == pos \div q + 1
        rem == pos % q
    IN  IF rem = 0 THEN q * v[lo]
        ELSE q * v[lo] + rem * (v[lo + 1] - v[lo])

\* pd.qcut(values, q=5, labels=[1, 2, 3, 4, 5]): ValueError when two bin
\* edges coincide, else the number of the right-closed bin of each value
QCut(val) ==
    LET v == SortedValues(val, DOMAIN val)
        edge == [k \in 0..5 |-> QuantileTimes(v, k, 5)]
    IN  IF \E i, j \in 0..5 : i # j /\ edge[i] = edge[j]
        THEN Raise("ValueError")
        ELSE Ok([n \in DOMAIN val |->
                    CHOOSE k \in 1..5 :
                        /\ 5 * val[n] <= edge[k]
                        /\ k = 1 \/ 5 * val[n] > edge[k - 1]])

\* rfm_df: the RFM attributes of the customers of the activity table.  With
\* no flown record recent_activity is empty and months_diff fails on the
\* .dt accessor of an empty non-datetime Series; a recency above 24 gets no
\* band and the int64 cast of the NaN fails; qcut fails on repeated edges
RfmFrame(cfa) ==
    LET recency == CustomerRecency(cfa)
        r_score == [n \in Customers(cfa) |->
                       IF recency[n].t = "int" THEN CutRecency(recency[n].n) ELSE JNaN]
        frequency == CustomerFrequency(cfa)
        f_score == QCut(frequency)
        monetary == CustomerMonetary(cfa)
        m_score == QCut(monetary)
    IN  IF Flown(cfa) = {}
        THEN Raise("AttributeError")
        ELSE IF \E n \in Customers(cfa) : r_score[n].t = "nan"
        THEN Raise("ValueError")
        ELSE IF f_score.status = "raise" THEN f_score
        ELSE IF m_score.status = "raise" THEN m_score
        ELSE Ok([n \in Customers(cfa) |->
                    [recency |-> recency[n], r_score |-> r_score[n],
                     frequency |-> JInt(frequency[n]), f_score |-> JInt(f_score.val[n]),
                     monetary |-> JInt(monetary[n]), m_score |-> JInt(m_score.val[n]),
                     rfm_segment |-> JStr(assign_rfm_segment(r_score[n].n,
                                             f_score.val[n], m_score.val[n]))]])

\* the RFM columns of a history row that finds no row of rfm_df
NullRfm ==
    [recency |-> JNaN, r_score |-> JNaN, frequency |-> JNaN, f_score |-> JNaN,
     monetary |-> JNaN, m_score |-> JNaN, rfm_segment |-> JNull]

\* the month difference without clip(lower=0)
TenureMonths_NoFloor(h, reference_date) ==
    LET enrollment == [year |-> h.enrollment_year, month |-> h.enrollment_month]
        tenure_end ==
            IF h.cancellation_year # 0
            THEN [year |-> h.cancellation_year, month |-> h.cancellation_month]
            ELSE reference_date
    IN  months_diff(tenure_end, enrollment)

\* tenure_months of a history record for the reference date
TenureMonths(h, reference_date) ==
    LET enrollment == [year |-> h.enrollment_year, month |-> h.enrollment_month]
        tenure_end ==
            IF h.cancellation_year # 0
            THEN [year |-> h.cancellation_year, month |-> h.cancellation_month]
            ELSE reference_date
    IN  Max2(0, months_diff(tenure_end, enrollment))

\* clh_small: the kept columns of a history record
ClhSmall(h, reference_date) ==
    [loyalty_number |-> h.loyalty_number, province |-> h.province, city |-> h.city,
     gender |-> h.gender, education |-> h.education, loyalty_card |-> h.loyalty_card,
     clv |-> h.clv, is_cancelled |-> h.cancellation_year # 0,
     tenure_months |-> TenureMonths(h, reference_date)]

\* the merge with how="inner"
LeftMerge_Inner(clh, rfm, reference_date) ==
    {ClhSmall(h, reference_date) @@ rfm[h.loyalty_number] :
        h \in {x \in clh : x.loyalty_number \in DOMAIN rfm}}

\* clh_small.merge(rfm_df, on="loyalty_number", how="left")
LeftMerge(clh, rfm, reference_date) ==
    {ClhSmall(h, reference_date)
        @@ (IF h.loyalty_number \in DOMAIN rfm THEN rfm[h.loyalty_number] ELSE NullRfm) :
        h \in clh}

build_customer_features(cfa, clh) ==
    LET rfm == RfmFrame(cfa)
    IN  IF rfm.status = "raise" THEN rfm
        ELSE Ok(LeftMerge(clh, rfm.val, MaxActivityDate(cfa)))

\* pd.NaT
NaT == [year |-> 0, month |-> 0]

\* the filter total_flights > 0 applied to cfa_df itself
ActivityAfter_FlownOnly(cfa) ==
    {[activity_date |-> PeriodOf(a)] @@ a : a \in {b \in cfa : b.total_flights > 0}}

\* cfa_df after the call: the column activity_date is assigned in place
ActivityAfter(cfa) == {[activity_date |-> PeriodOf(a)] @@ a : a \in cfa}

\* the columns the call assigns in place on one row of clh_df
HistoryColumns(h, reference_date) ==
    LET cancelled == h.cancellation_year # 0
        cancellation ==
            IF cancelled
            THEN [year |-> h.cancellation_year, month |-> h.cancellation_month]
            ELSE NaT
    IN  [is_cancelled |-> cancelled,
         enrollment_date |-> [year |-> h.enrollment_year, month |-> h.enrollment_month],
         cancellation_date |-> cancellation,
         tenure_end_date |-> IF cancelled THEN cancellation ELSE reference_date,
         tenure_months |-> TenureMonths(h, reference_date)]

\* clh_df after the call: untouched when the RFM part raised before line 119
HistoryAfter(cfa, clh) ==
    IF RfmFrame(cfa).status = "raise" THEN clh
    ELSE {HistoryColumns(h, MaxActivityDate(cfa)) @@ h : h \in clh}

\* ------------------------------------------------------------------------
\* Specification SpecRfm: build_customer_features on one batch, called once
\* and then a second time on the same two table objects
\* ------------------------------------------------------------------------
InitRfm ==
    /\ pc = "rfm_start"
    /\ cfa_df \in ActivityInputs
    /\ clh_df \in HistoryTables
    /\ features = NoVal
    /\ features_again = NoVal
    /\ ChatIdle /\ SanIdle /\ AggIdle /\ SegIdle /\ PipeIdle
    /\ OpsIdle /\ SessionIdle /\ AthenaIdle

BuildFeatures ==
    /\ pc = "rfm_start"
    /\ features' = build_customer_features(cfa_df, clh_df)
    /\ cfa_df' = ActivityAfter(cfa_df)
    /\ clh_df' = HistoryAfter(cfa_df, clh_df)
    /\ pc' = "rfm_done"
    /\ UNCHANGED <<plan_in, san_out, plannerOut, plan, planner_error, idx, passed,
                   computed, compute_errors, df_slice, op_item, agg_out,
                   features_again, scores, segment, local_files, s3, runs>>
    /\ UNCHANGED <<df_all, selection, kpis, session, query, steps>>

BuildFeaturesAgain ==
    /\ pc = "rfm_done"
    /\ features_again' = build_customer_features(cfa_df, clh_df)
    /\ cfa_df' = ActivityAfter(cfa_df)
    /\ clh_df' = HistoryAfter(cfa_df, clh_df)
    /\ pc' = "rfm_twice"
    /\ UNCHANGED <<plan_in, san_out, plannerOut, plan, planner_error, idx, passed,
                   computed, compute_errors, df_slice, op_item, agg_out,
                   features, scores, segment, local_files, s3, runs>>
    /\ UNCHANGED <<df_all, selection, kpis, session, query, steps>>

NextRfm == BuildFeatures \/ BuildFeaturesAgain

SpecRfm == InitRfm /\ [][NextRfm]_vars

\* ------------------------------------------------------------------------
\* Claims about the feature builder
\* ------------------------------------------------------------------------
Built == pc = "rfm_done" /\ features.status = "ok"

HistoryCustomers == {h.loyalty_number : h \in clh_df}

ActivityCustomers == {a.loyalty_number : a \in cfa_df}

\* C8: the returned table has exactly one row per loyalty_number of the
\* History table: every History customer has a row, a customer that is only
\* in the Activity table has none, and no customer has two rows.
C8_OneRowPerHistoryCustomer ==
    Built =>
        /\ {f.loyalty_number : f \in features.val} = HistoryCustomers
        /\ \A f, g \in features.val : f.loyalty_number = g.loyalty_number => f = g
        /\ \A n \in ActivityCustomers \ HistoryCustomers :
              ~\E f \in features.val : f.loyalty_number = n

\* a batch with a History customer without activity and an Activity
\* customer without history gave one row per History customer
C8_Witness ==
    /\ Built
    /\ Cardinality(features.val) = 2
    /\ HistoryCustomers \ ActivityCustomers # {}
    /\ ActivityCustomers \ HistoryCustomers # {}
    /\ HistoryCustomers \cap ActivityCustomers # {}

\* the months from the customer's latest period with flights to the latest
\* period of the batch, for the customers n that have such a period
MonthsSinceLastFlight(n) ==
    LET index(a) == 12 * a.year + a.month
        latest == CHOOSE a \in cfa_df : \A b \in cfa_df : index(b) <= index(a)
        mine == {a \in cfa_df : a.loyalty_number = n /\ a.total_flights > 0}
        last == CHOOSE a \in mine : \A b \in mine : index(b) <= index(a)
    IN  12 * (latest.year - last.year) + (latest.month - last.month)

HasFlown(n) == \E a \in cfa_df : a.loyalty_number = n /\ a.total_flights > 0

\* the recency a sentinel row gets: the largest observed recency plus one
SentinelRecency ==
    SetMax({MonthsSinceLastFlight(n) : n \in {k \in ActivityCustomers : HasFlown(k)}}) + 1

\* C9 as stated: a customer of the History table without any Activity
\* record gets recency = sentinel, frequency = 0, monetary = 0, integer
\* scores and a segment.
C9_Original ==
    Built =>
        \A f \in features.val :
            f.loyalty_number \notin ActivityCustomers =>
                /\ f.recency = JInt(SentinelRecency)
                /\ f.frequency = JInt(0)
                /\ f.monetary = JInt(0)
                /\ f.r_score.t = "int" /\ f.f_score.t = "int" /\ f.m_score.t = "int"
                /\ f.rfm_segment.t = "str"

\* C10: for a customer with a record with total_flights > 0, recency is the
\* non-negative integer 12*(Ymax - Y) + (Mmax - M), (Y, M) the customer's
\* latest period with flights and (Ymax, Mmax) the latest period of all
\* records, zero-flight records included.
C10_RecencyIsMonthsSinceLastFlight ==
    /\ pc \in {"rfm_start", "rfm_done"} =>
          \A n \in ActivityCustomers :
              HasFlown(n) =>
                  /\ CustomerRecency(cfa_df)[n] = JInt(MonthsSinceLastFlight(n))
                  /\ MonthsSinceLastFlight(n) >= 0
    /\ Built =>
          \A f \in features.val :
              HasFlown(f.loyalty_number) =>
                  f.recency = JInt(MonthsSinceLastFlight(f.loyalty_number))

\* a customer last flew in 2018-03, the latest period 2018-12 of the batch
\* holds only a zero-flight record, and the customer's recency is 9
C10_Witness ==
    /\ Built
    /\ \E f \in features.val :
          /\ HasFlown(f.loyalty_number)
          /\ f.recency = JInt(9)
          /\ \A a \in cfa_df :
                (a.year = 2018 /\ a.month = 12) => a.total_flights = 0
          /\ \E a \in cfa_df : a.year = 2018 /\ a.month = 12

\* the Activity customers without any period with total_flights > 0
ZeroFlightCustomers == {n \in ActivityCustomers : ~HasFlown(n)}

FlownCustomers == {n \in ActivityCustomers : HasFlown(n)}

\* C11 as stated: an Activity customer without a qualifying period gets
\* recency = (maximum recency of the customers that have one) + 1, above the
\* recency of every such customer, and the builder produces a value for it
\* also when no customer of the batch has a qualifying period.
C11_Original ==
    pc = "rfm_done" =>
        \A n \in ZeroFlightCustomers :
            /\ CustomerRecency(cfa_df)[n].t = "int"
            /\ features.status = "raise" => features.exc # "AttributeError"
            /\ FlownCustomers # {} =>
                  /\ CustomerRecency(cfa_df)[n] = JInt(SentinelRecency)
                  /\ \A k \in FlownCustomers :
                        CustomerRecency(cfa_df)[n].n > MonthsSinceLastFlight(k)
            /\ Built =>
                  \A f \in features.val :
                      f.loyalty_number = n => f.recency = JInt(SentinelRecency)

\* the r_score the banding is said to give a recency
ClaimedBand(x) ==
    IF x <= 1 THEN 5 ELSE IF x <= 3 THEN 4 ELSE IF x <= 6 THEN 3
    ELSE IF x <= 12 THEN 2 ELSE 1

\* C12 as stated: every recency the builder produces, the sentinel and the
\* values above 24 included, is banded to an r_score in 1..5 (5 up to 1, 4 up
\* to 3, 3 up to 6, 2 up to 12, else 1), the r_score never grows with the
\* recency, and the banding does not abort the run.
C12_Original ==
    pc = "rfm_done" /\ FlownCustomers # {} =>
        LET recency == CustomerRecency(cfa_df)
            r_score == [n \in ActivityCustomers |-> CutRecency(recency[n].n)]
        IN  /\ \A n \in ActivityCustomers :
                  /\ r_score[n].t = "int"
                  /\ r_score[n] = JInt(ClaimedBand(recency[n].n))
            /\ \A n, k \in ActivityCustomers :
                  (r_score[n].t = "int" /\ r_score[k].t = "int"
                   /\ recency[n].n <= recency[k].n) => r_score[n].n >= r_score[k].n
            /\ Built =>
                  \A f \in features.val :
                      f.loyalty_number \in ActivityCustomers =>
                          f.r_score = JInt(ClaimedBand(f.recency.n))

\* the History record of the customer of a feature row
HistoryOf(f) == CHOOSE h \in clh_df : h.loyalty_number = f.loyalty_number

\* months from the enrollment of a History record to the latest period of
\* the Activity table
MonthsEnrolled(h) ==
    LET latest == SetMax({12 * a.year + a.month : a \in cfa_df})
    IN  latest - (12 * h.enrollment_year + h.enrollment_month)

\* months from the enrollment to the cancellation of a cancelled customer
MonthsToCancellation(h) ==
    (12 * h.cancellation_year + h.cancellation_month)
        - (12 * h.enrollment_year + h.enrollment_month)

\* tenure_months is never negative and is the floored month difference to
\* the cancellation date or, without one, to the latest activity period
TenureIsFlooredDifference ==
    \A f \in features.val :
        /\ f.tenure_months >= 0
        /\ f.is_cancelled = (HistoryOf(f).cancellation_year # 0)
        /\ f.is_cancelled =>
              f.tenure_months = Max2(0, MonthsToCancellation(HistoryOf(f)))
        /\ ~f.is_cancelled =>
              f.tenure_months = Max2(0, MonthsEnrolled(HistoryOf(f)))

\* C14 as stated: tenure_months is the floored difference, and of two
\* non-cancelled customers the one with the larger (reference_date -
\* enrollment_date) has the strictly larger tenure_months.
C14_Original ==
    Built =>
        /\ TenureIsFlooredDifference
        /\ \A f, g \in features.val :
              (~f.is_cancelled /\ ~g.is_cancelled
               /\ MonthsEnrolled(HistoryOf(f)) > MonthsEnrolled(HistoryOf(g)))
                  => f.tenure_months > g.tenure_months

\* C14 amended: tenure_months is the floored difference, and of two
\* non-cancelled customers the one with the larger (reference_date -
\* enrollment_date) has a tenure_months at least as large, strictly larger
\* when that larger difference is positive.
C14_TenureFlooredAndMonotone ==
    Built =>
        /\ TenureIsFlooredDifference
        /\ \A f, g \in features.val :
              (~f.is_cancelled /\ ~g.is_cancelled
               /\ MonthsEnrolled(HistoryOf(f)) > MonthsEnrolled(HistoryOf(g)))
                  => /\ f.tenure_months >= g.tenure_months
                     /\ MonthsEnrolled(HistoryOf(f)) > 0 =>
                           f.tenure_months > g.tenure_months

\* two non-cancelled customers enrolled at different dates after the latest
\* activity period both have tenure_months 0
C14_Witness ==
    /\ Built
    /\ \E f, g \in features.val :
          /\ ~f.is_cancelled /\ ~g.is_cancelled
          /\ MonthsEnrolled(HistoryOf(f)) > MonthsEnrolled(HistoryOf(g))
          /\ f.tenure_months = 0 /\ g.tenure_months = 0

\* the total of a column over records, value by value: each value times
\* the number of records that hold it
RECURSIVE WeightedTotal(_, _, _)
WeightedTotal(vals, recs, field) ==
    IF vals = {} THEN 0
    ELSE LET v == CHOOSE x \in vals : TRUE
         IN  v * Cardinality({a \in recs : a[field] = v})
                 + WeightedTotal(vals \ {v}, recs, field)

TotalFlights(n) ==
    LET recs == {a \in cfa_df : a.loyalty_number = n}
    IN  WeightedTotal({a.total_flights : a \in recs}, recs, "total_flights")

DistanceFlown(n) ==
    LET recs == {a \in cfa_df : a.loyalty_number = n /\ a.total_flights > 0}
    IN  WeightedTotal({a.distance : a \in recs}, recs, "distance")

\* customer 1 has the three records of the RFM fixture and month 3 of 2018
\* is the latest period of the batch
IsFixture ==
    /\ {[loyalty_number |-> a.loyalty_number, year |-> a.year, month |-> a.month,
         total_flights |-> a.total_flights, distance |-> a.distance] :
            a \in {b \in cfa_df : b.loyalty_number = 1}} = FixtureRecords
    /\ \A a \in cfa_df : 12 * a.year + a.month <= 12 * 2018 + 3

\* C15: for a customer with Activity records frequency is the sum of
\* total_flights over all its periods and monetary the sum of distance over
\* its periods with total_flights > 0 only (0 without such a period); the
\* fixture (2,0,5 flights, distances 100,0,400, latest period month 3) gives
\* recency 0, frequency 7, monetary 500.
C15_FrequencyAndMonetarySums ==
    Built =>
        \A f \in features.val :
            f.loyalty_number \in ActivityCustomers =>
                /\ f.frequency = JInt(TotalFlights(f.loyalty_number))
                /\ f.monetary = JInt(DistanceFlown(f.loyalty_number))
                /\ ~HasFlown(f.loyalty_number) => f.monetary = JInt(0)
                /\ (IsFixture /\ f.loyalty_number = 1) =>
                      /\ f.recency = JInt(0)
                      /\ f.frequency = JInt(7)
                      /\ f.monetary = JInt(500)

\* the fixture customer got its row with frequency 7 and monetary 500
C15_Witness ==
    /\ Built /\ IsFixture
    /\ \E f \in features.val :
          f.loyalty_number = 1 /\ f.frequency = JInt(7) /\ f.monetary = JInt(500)

\* a zero-flight record with a distance lies next to a flown record of the
\* same customer and only the flown distance is in monetary
C15_ZeroFlightDistanceSkipped ==
    /\ Built
    /\ \E f \in features.val :
          /\ \E a \in cfa_df :
                a.loyalty_number = f.loyalty_number /\ a.total_flights = 0
                /\ a.distance > 0
          /\ HasFlown(f.loyalty_number)
          /\ f.monetary = JInt(100)

\* the recency step and the banding went through: some customer has flown
\* and no recency is above 24
BandingPasses ==
    /\ FlownCustomers # {}
    /\ \A n \in ActivityCustomers : CustomerRecency(cfa_df)[n].n <= 24

\* C16 as stated: when the frequency or the monetary values are too few or
\* too homogeneous for five distinct quintile boundaries, the build still
\* completes and every customer gets an f_score and an m_score in 1..5.
C16_Original ==
    (pc = "rfm_done" /\ BandingPasses) =>
        /\ features.status = "ok"
        /\ \A f \in features.val :
              f.loyalty_number \in ActivityCustomers =>
                  /\ f.f_score.t = "int" /\ f.f_score.n \in ScoreRange
                  /\ f.m_score.t = "int" /\ f.m_score.n \in ScoreRange

C19_Original ==
    [][BuildFeatures => (cfa_df' = cfa_df /\ clh_df' = clh_df)]_vars

\* ------------------------------------------------------------------------
\* Specification SpecSeg: assign_rfm_segment on one score triple
\* ------------------------------------------------------------------------
InitSeg ==
    /\ pc = "seg_start"
    /\ scores \in [r : ScoreRange, f : ScoreRange, m : ScoreRange]
    /\ segment = NoVal
    /\ ChatIdle /\ SanIdle /\ AggIdle /\ RfmIdle /\ PipeIdle
    /\ OpsIdle /\ SessionIdle /\ AthenaIdle

AssignSegment ==
    /\ pc = "seg_start"
    /\ segment' = JStr(assign_rfm_segment(scores.r, scores.f, scores.m))
    /\ pc' = "seg_done"
    /\ UNCHANGED <<plan_in, san_out, plannerOut, plan, planner_error, idx, passed,
                   computed, compute_errors, df_slice, op_item, agg_out, cfa_df,
                   clh_df, features, features_again, scores, local_files, s3, runs>>
    /\ UNCHANGED <<df_all, selection, kpis, session, query, steps>>

NextSeg == AssignSegment

SpecSeg == InitSeg /\ [][NextSeg]_vars

SegmentNames == {"Champions", "Loyal", "At Risk", "Dormant", "Potential"}

\* C13: over the triples of [1,5]^3 the five rules partition the triples:
\* Champions iff r>=4, f>=4, m>=4; otherwise Loyal iff r>=3, f>=3; At Risk
\* iff r<=2, f>=3; Dormant iff r<=2, f<=2; Potential iff r>=3, f<=2; every
\* segment has a triple, and (5,5,3) is Loyal.
C13_SegmentsPartitionTriples ==
    pc = "seg_done" =>
        LET r == scores.r
            f == scores.f
            m == scores.m
            champion == r >= 4 /\ f >= 4 /\ m >= 4
        IN  /\ segment.t = "str" /\ segment.s \in SegmentNames
            /\ segment.s = "Champions" <=> champion
            /\ segment.s = "Loyal" <=> (~champion /\ r >= 3 /\ f >= 3)
            /\ segment.s = "At Risk" <=> (r <= 2 /\ f >= 3)
            /\ segment.s = "Dormant" <=> (r <= 2 /\ f <= 2)
            /\ segment.s = "Potential" <=> (r >= 3 /\ f <= 2)
            /\ scores = [r |-> 5, f |-> 5, m |-> 3] => segment.s = "Loyal"
            /\ \A name \in SegmentNames :
                  \E a, b, c \in ScoreRange : assign_rfm_segment(a, b, c) = name

\* the boundary triple (5,5,3) was assigned Loyal
C13_Witness ==
    pc = "seg_done" /\ scores = [r |-> 5, f |-> 5, m |-> 3] /\ segment = JStr("Loyal")

\* ------------------------------------------------------------------------
\* Specification SpecPipe: runs of main() (src/main.py) against one bucket
\* ------------------------------------------------------------------------
\* CSV headers and what strip().lower().replace(" ", "_") makes of them
ColumnNames ==
    {<<"Loyalty Number", "loyalty_number">>, <<"Year", "year">>,
     <<"Month", "month">>, <<"Total Flights", "total_flights">>,
     <<"Distance", "distance">>, <<"Province", "province">>, <<"City", "city">>,
     <<"Gender", "gender">>, <<"Education", "education">>,
     <<"Loyalty Card", "loyalty_card">>, <<"CLV", "clv">>,
     <<"Enrollment Year", "enrollment_year">>,
     <<"Enrollment Month", "enrollment_month">>,
     <<"Cancellation Year", "cancellation_year">>,
     <<"Cancellation Month", "cancellation_month">>}

\* the rows of a CSV file that holds the given records under its headers
CsvFile(recs) ==
    {[h \in {c[1] : c \in {d \in ColumnNames : d[2] \in DOMAIN r}} |->
         r[(CHOOSE c \in ColumnNames : c[1] = h)[2]]] : r \in recs}

\* df.columns = [c.strip().lower().replace(" ", "_") for c in df.columns]
standardize_columns(df) ==
    {[k \in {c[2] : c \in {d \in ColumnNames : d[1] \in DOMAIN row}} |->
         row[(CHOOSE c \in ColumnNames : c[2] = k)[1]]] : row \in df}

\* the astype casts of cast_clh keep the integral and string values of the
\* modelled columns
cast_clh(df) == df

\* the local CSV files a run can find: two activity files that build, one
\* with a single customer, and two history files
PipeInputs ==
    LET rec(n, y, mo, fl, d) ==
            [loyalty_number |-> n, year |-> y, month |-> mo, total_flights |-> fl,
             distance |-> d]
        activity ==
            {{rec(1, 2018, 3, 3, 100), rec(2, 2018, 12, 0, 50)},
             {rec(1, 2018, 12, 0, 50), rec(2, 2018, 12, 3, 100)},
             {rec(1, 2018, 12, 3, 100)}}
        history ==
            {{h \in HistoryRecords : h.loyalty_number \in {1, 2}},
             {h \in HistoryRecords : h.loyalty_number \in {2, 3}}}
    IN  {[cfa |-> CsvFile(a), clh |-> CsvFile(h)] : a \in activity, h \in history}

Absent == [exists |-> FALSE]

Object(body) == [exists |-> TRUE, body |-> body]

\* upload_file_to_s3: nothing is written when the key exists
upload_file_to_s3(store, local, key) ==
    IF store[key].exists THEN store
    ELSE [store EXCEPT ![key] = Object(local)]

\* csv_to_parquet_s3: nothing is written when the output key exists
csv_to_parquet_s3(store, input, output, cast) ==
    IF store[output].exists THEN store
    ELSE LET df == standardize_columns(store[input].body)
         IN  [store EXCEPT ![output] = Object(IF cast THEN cast_clh(df) ELSE df)]

\* customer_features_to_parquet_s3: returns at once when the output key
\* exists, else reads the two parquet objects, builds and writes
customer_features_to_parquet_s3(store) ==
    IF store.features.exists THEN Ok(store)
    ELSE LET built == build_customer_features(store.proc_cfa.body, store.proc_clh.body)
         IN  IF built.status = "raise" THEN built
             ELSE Ok([store EXCEPT !.features = Object(built.val)])

InitPipe ==
    /\ pc = "pipe_idle"
    /\ local_files = NoVal
    /\ s3 = [raw_clh |-> Absent, raw_cfa |-> Absent, proc_clh |-> Absent,
             proc_cfa |-> Absent, features |-> Absent]
    /\ runs = 0
    /\ ChatIdle /\ SanIdle /\ AggIdle /\ RfmIdle /\ SegIdle
    /\ OpsIdle /\ SessionIdle /\ AthenaIdle

\* main() is started on the local files of the day
StartRun ==
    /\ pc \in {"pipe_idle", "pipe_done", "pipe_failed"}
    /\ runs < MaxRuns
    /\ local_files' \in PipeInputs
    /\ runs' = runs + 1
    /\ steps' = <<>>
    /\ pc' = "pipe_create_database"
    /\ UNCHANGED <<plan_in, san_out, plannerOut, plan, planner_error, idx, passed,
                   computed, compute_errors, df_slice, op_item, agg_out, cfa_df,
                   clh_df, features, features_again, scores, segment, s3>>
    /\ UNCHANGED <<df_all, selection, kpis, session, query>>

\* run_sql_file, lines 12-27: the statement of the step is submitted
StartQuery ==
    /\ pc \in {"pipe_create_database", "pipe_create_table",
               "pipe_segment_distribution", "pipe_at_high_risk",
               "pipe_segment_by_province"}
    /\ query = NoVal
    /\ query' = [sql |-> pc, state |-> "QUEUED"]
    /\ UNCHANGED <<pc, plan_in, san_out, plannerOut, plan, planner_error, idx, passed,
                   computed, compute_errors, df_slice, op_item, agg_out, cfa_df,
                   clh_df, features, features_again, scores, segment, local_files,
                   s3, runs>>
    /\ UNCHANGED <<df_all, selection, kpis, session, steps>>

\* Athena moves the query on: the states get_query_execution can report
AthenaProgress ==
    /\ query # NoVal
    /\ \/ /\ query.state = "QUEUED"
          /\ \E st \in {"RUNNING", "FAILED", "CANCELLED"} :
                query' = [query EXCEPT !.state = st]
       \/ /\ query.state = "RUNNING"
          /\ \E st \in {"SUCCEEDED", "FAILED", "CANCELLED"} :
                query' = [query EXCEPT !.state = st]
    /\ UNCHANGED <<pc, plan_in, san_out, plannerOut, plan, planner_error, idx, passed,
                   computed, compute_errors, df_slice, op_item, agg_out, cfa_df,
                   clh_df, features, features_again, scores, segment, local_files,
                   s3, runs>>
    /\ UNCHANGED <<df_all, selection, kpis, session, steps>>

\* a loop that takes RUNNING for the end of the query
PollQuery_ReturnsEarly ==
    /\ pc \in {"pipe_create_database", "pipe_create_table",
               "pipe_segment_distribution", "pipe_at_high_risk",
               "pipe_segment_by_province"}
    /\ query # NoVal
    /\ LET after == [pipe_create_database |-> "pipe_upload",
                     pipe_create_table |-> "pipe_segment_distribution",
                     pipe_segment_distribution |-> "pipe_at_high_risk",
                     pipe_at_high_risk |-> "pipe_segment_by_province",
                     pipe_segment_by_province |-> "pipe_scoring"]
       IN  IF query.state \in {"RUNNING", "SUCCEEDED"}
           THEN /\ pc' = after[pc]
                /\ steps' = Append(steps, query.sql)
                /\ query' = NoVal
           ELSE IF query.state \in {"FAILED", "CANCELLED"}
           THEN /\ pc' = "pipe_failed"
                /\ query' = NoVal
                /\ UNCHANGED steps
           ELSE UNCHANGED <<pc, query, steps>>
    /\ UNCHANGED <<plan_in, san_out, plannerOut, plan, planner_error, idx, passed,
                   computed, compute_errors, df_slice, op_item, agg_out, cfa_df,
                   clh_df, features, features_again, scores, segment, local_files,
                   s3, runs>>
    /\ UNCHANGED <<df_all, selection, kpis, session>>

\* one round of "while True": on SUCCEEDED run_sql_file returns and main
\* goes to its next statement, on FAILED or CANCELLED RuntimeError ends
\* main, in every other state the loop sleeps and asks again
PollQuery ==
    /\ pc \in {"pipe_create_database", "pipe_create_table",
               "pipe_segment_distribution", "pipe_at_high_risk",
               "pipe_segment_by_province"}
    /\ query # NoVal
    /\ LET after == [pipe_create_database |-> "pipe_upload",
                     pipe_create_table |-> "pipe_segment_distribution",
                     pipe_segment_distribution |-> "pipe_at_high_risk",
                     pipe_at_high_risk |-> "pipe_segment_by_province",
                     pipe_segment_by_province |-> "pipe_scoring"]
       IN  IF query.state = "SUCCEEDED"
           THEN /\ pc' = after[pc]
                /\ steps' = Append(steps, query.sql)
                /\ query' = NoVal
           ELSE IF query.state \in {"FAILED", "CANCELLED"}
           THEN /\ pc' = "pipe_failed"
                /\ query' = NoVal
                /\ UNCHANGED steps
           ELSE UNCHANGED <<pc, query, steps>>
    /\ UNCHANGED <<plan_in, san_out, plannerOut, plan, planner_error, idx, passed,
                   computed, compute_errors, df_slice, op_item, agg_out, cfa_df,
                   clh_df, features, features_again, scores, segment, local_files,
                   s3, runs>>
    /\ UNCHANGED <<df_all, selection, kpis, session>>

\* main, lines 17-24
UploadRaw ==
    /\ pc = "pipe_upload"
    /\ s3' = upload_file_to_s3(upload_file_to_s3(s3, local_files.clh, "raw_clh"),
                               local_files.cfa, "raw_cfa")
    /\ steps' = Append(steps, pc)
    /\ pc' = "pipe_parquet"
    /\ UNCHANGED <<plan_in, san_out, plannerOut, plan, planner_error, idx, passed,
                   computed, compute_errors, df_slice, op_item, agg_out, cfa_df,
                   clh_df, features, features_again, scores, segment, local_files,
                   runs>>
    /\ UNCHANGED <<df_all, selection, kpis, session, query>>

\* main, lines 28-39
TransformToParquet ==
    /\ pc = "pipe_parquet"
    /\ s3' = csv_to_parquet_s3(csv_to_parquet_s3(s3, "raw_clh", "proc_clh", TRUE),
                               "raw_cfa", "proc_cfa", FALSE)
    /\ steps' = Append(steps, pc)
    /\ pc' = "pipe_features"
    /\ UNCHANGED <<plan_in, san_out, plannerOut, plan, planner_error, idx, passed,
                   computed, compute_errors, df_slice, op_item, agg_out, cfa_df,
                   clh_df, features, features_again, scores, segment, local_files,
                   runs>>
    /\ UNCHANGED <<df_all, selection, kpis, session, query>>

\* main, lines 43-51: an exception of the builder ends the run
BuildCustomerFeatures ==
    /\ pc = "pipe_features"
    /\ LET r == customer_features_to_parquet_s3(s3)
       IN  IF r.status = "ok"
           THEN /\ s3' = r.val
                /\ steps' = Append(steps, pc)
                /\ pc' = "pipe_create_table"
           ELSE /\ pc' = "pipe_failed"
                /\ UNCHANGED <<s3, steps>>
    /\ UNCHANGED <<plan_in, san_out, plannerOut, plan, planner_error, idx, passed,
                   computed, compute_errors, df_slice, op_item, agg_out, cfa_df,
                   clh_df, features, features_again, scores, segment, local_files,
                   runs>>
    /\ UNCHANGED <<df_all, selection, kpis, session, query>>

\* main, line 68: run_processing_job returns, or raises and ends main
RunScoringJob ==
    /\ pc = "pipe_scoring"
    /\ \E raised \in BOOLEAN :
          IF raised
          THEN pc' = "pipe_failed" /\ UNCHANGED steps
          ELSE pc' = "pipe_done" /\ steps' = Append(steps, pc)
    /\ UNCHANGED <<plan_in, san_out, plannerOut, plan, planner_error, idx, passed,
                   computed, compute_errors, df_slice, op_item, agg_out, cfa_df,
                   clh_df, features, features_again, scores, segment, local_files,
                   s3, runs>>
    /\ UNCHANGED <<df_all, selection, kpis, session, query>>

NextPipe ==
    \/ StartRun \/ StartQuery \/ AthenaProgress \/ PollQuery \/ UploadRaw
    \/ TransformToParquet \/ BuildCustomerFeatures \/ RunScoringJob

SpecPipe == InitPipe /\ [][NextPipe]_vars

\* main is a running process: a statement that can be taken is taken, and
\* the polling loop of run_sql_file goes round every second
SpecPipeFair ==
    SpecPipe /\ WF_vars(StartQuery) /\ WF_vars(PollQuery)

\* build_customer_features on the local files of the latest run
FeaturesOfLatestInputs ==
    build_customer_features(standardize_columns(local_files.cfa),
                            cast_clh(standardize_columns(local_files.clh)))

\* C17 as stated: after any sequence of runs of main() the persisted
\* customer_features object is build_customer_features of the inputs of the
\* latest run, also when objects of an earlier run exist.
C17_Original ==
    pc = "pipe_done" =>
        /\ s3.features.exists
        /\ FeaturesOfLatestInputs.status = "ok"
        /\ s3.features.body = FeaturesOfLatestInputs.val

\* ------------------------------------------------------------------------
\* Claims about the compute loop of the chat flow
\* ------------------------------------------------------------------------
\* the number of entries of the error list that name op
ErrorsNaming(op) ==
    Cardinality({i \in 1..Len(compute_errors) : compute_errors[i] = op})

\* the items of the plan that the loop has to hand to compute_operation:
\* those whose op is not among the summaries computed before the loop
ItemsToCompute(ops) ==
    LET NotPrecomputed(it) == it.m.op.s \notin PrecomputedOps
    IN  SelectSeq(ops, NotPrecomputed)

\* the item at position i is accounted for: its result is in computed and no
\* entry names it, or it is not in computed and exactly one entry names it
Accounted(ops, i) ==
    LET op == ops[i].m.op.s
    IN  \/ op \in computed /\ ErrorsNaming(op) = 0
        \/ op \notin computed /\ ErrorsNaming(op) = 1

\* C20: a failure inside one operation does not stop the others: every item
\* of the plan is, in plan order, either stored under its op name in
\* computed or named by exactly one entry of the error list, the items after
\* a failing one are still executed, and the narrator is then called with
\* the partial results.
C20_FailuresDoNotStopSiblings ==
    /\ pc = "chat_compute" =>
          /\ \A i \in 1..(idx - 1) : Accounted(plan.m.operations.l, i)
          /\ Len(compute_errors) + Cardinality(computed \ PrecomputedOps)
                = Len(passed)
          /\ \A i \in 1..Len(passed) :
                passed[i] = ItemsToCompute(plan.m.operations.l)[i]
    /\ pc = "chat_answered" =>
          /\ \A i \in 1..Len(plan.m.operations.l) :
                Accounted(plan.m.operations.l, i)
          /\ passed = ItemsToCompute(plan.m.operations.l)
          /\ PrecomputedOps \subseteq computed
          /\ \A i, j \in 1..Len(compute_errors) :
                i < j =>
                    \E a, b \in 1..Len(passed) :
                        /\ a < b
                        /\ passed[a].m.op.s = compute_errors[i]
                        /\ passed[b].m.op.s = compute_errors[j]

\* the first of two operations failed, the second was still computed, and
\* the narrator got the partial results
C20_Witness ==
    /\ pc = "chat_answered"
    /\ Len(plan.m.operations.l) = 2 /\ Len(passed) = 2
    /\ compute_errors = <<plan.m.operations.l[1].m.op.s>>
    /\ plan.m.operations.l[2].m.op.s \in computed

\* ------------------------------------------------------------------------
\* Claims about applying _sanitize_plan to its own output
\* ------------------------------------------------------------------------
\* the items of a sanitized plan that carry an empty segment_filter
EmptyFilterItems(p) ==
    {i \in 1..Len(p.m.operations.l) :
        /\ "segment_filter" \in DOMAIN p.m.operations.l[i].m
        /\ p.m.operations.l[i].m.segment_filter = JStr("")}

\* the plan p with the segment_filter key removed from those items
DropEmptyFilter(p) ==
    LET items == p.m.operations.l
        Drop(m) == [k \in DOMAIN m \ {"segment_filter"} |-> m[k]]
    IN  JMap([intent |-> p.m.intent,
              operations |->
                  JList([i \in 1..Len(items) |->
                            IF i \in EmptyFilterItems(p)
                            THEN JMap(Drop(items[i].m)) ELSE items[i]])])

\* C29 as stated: _sanitize_plan is idempotent: for every plan on which it
\* returns, applying it to its own output returns an equal plan, the default
\* plan is a fixed point, and this includes a top_value_customers item
\* whose segment_filter is whitespace only.
C29_Original ==
    /\ _sanitize_plan(build_default_plan) = Ok(build_default_plan)
    /\ (pc = "san_done" /\ san_out.status = "ok")
          => _sanitize_plan(san_out.val) = san_out

\* C29 amended: applying _sanitize_plan to its own output returns an equal
\* plan and the default plan is a fixed point, except for a
\* top_value_customers item whose segment_filter is whitespace only: the
\* first application keeps segment_filter as the empty string and the
\* second application drops the key.
C29_SanitizeIdempotentButEmptyFilter ==
    /\ _sanitize_plan(build_default_plan) = Ok(build_default_plan)
    /\ (pc = "san_done" /\ san_out.status = "ok")
          => /\ _sanitize_plan(san_out.val) = Ok(DropEmptyFilter(san_out.val))
             /\ EmptyFilterItems(san_out.val) = {}
                   => _sanitize_plan(san_out.val) = san_out
             /\ \A i \in EmptyFilterItems(san_out.val) :
                   san_out.val.m.operations.l[i].m.op = JStr("top_value_customers")

\* a plan whose items were stripped, clamped and deduplicated, sanitized
\* again without change
C29_Witness ==
    /\ pc = "san_done" /\ san_out.status = "ok"
    /\ san_out.val # plan_in /\ san_out.val # build_default_plan
    /\ Len(san_out.val.m.operations.l) = 2
    /\ \E i \in 1..2 :
          /\ "segment_filter" \in DOMAIN san_out.val.m.operations.l[i].m
          /\ san_out.val.m.operations.l[i].m.segment_filter = JStr("Loyal")
    /\ _sanitize_plan(san_out.val) = san_out

\* the whitespace-only segment_filter came out as the empty string, and the
\* second application returns a different plan
C29_EmptyFilterDropped ==
    /\ pc = "san_done" /\ san_out.status = "ok"
    /\ EmptyFilterItems(san_out.val) # {}
    /\ _sanitize_plan(san_out.val) # san_out

\* ------------------------------------------------------------------------
\* Claims about the KPI mappings and the messages of the chat flow
\* ------------------------------------------------------------------------
\* the op names of the plan under execution
PlanOps == {plan.m.operations.l[i].m.op.s : i \in 1..Len(plan.m.operations.l)}

\* the entries the KPI mapping is said to hold
RequiredKpis ==
    {"customers", "avg_clv", "median_clv", "cancelled_rate", "retention_rate",
     "avg_recency_days", "avg_frequency", "avg_monetary", "avg_tenure_months",
     "avg_churn_score", "high_value_customers"}

\* C23 as stated: whenever the plan executed in the chat flow contains
\* kpis_baseline or kpis_slice, the KPI mapping handed to the narrator under
\* that name holds customer count, average and median CLV, cancellation and
\* retention rate, average recency, frequency, monetary and tenure, average
\* churn score and the high-value customer count.
C23_Original ==
    pc = "chat_answered" =>
        \A op \in PrecomputedOps \cap PlanOps :
            op \in computed /\ RequiredKpis \subseteq kpis[op]

\* C24 as stated: the service is called at most once for planning and at
\* most once for narration, a failure of either call ends the request with
\* the failure message as the assistant's answer, exactly one user message
\* and one assistant message are appended, and the filter selections stay
\* as they were.
C24_Original ==
    /\ [](pc = "chat_answered" =>
            (/\ session.planner_calls <= 1 /\ session.narrator_calls <= 1
             /\ Len(session.chat) = 3
             /\ session.chat[2].role = "user" /\ session.chat[3].role = "assistant"
             /\ ((plannerOut.k = "exception" \/ session.narrator_failed)
                    => session.chat[3].content = "Agent call failed")))
    /\ [][session'.filters = session.filters]_vars

\* what holds while the loop runs
C24_Asked ==
    /\ session.planner_calls = 1 /\ session.narrator_calls = 0
    /\ Len(session.chat) = 2 /\ session.chat[2].role = "user"
    /\ (plannerOut.k = "exception" => plan = build_default_plan)

\* what holds once the answer is appended
C24_Answered ==
    /\ session.planner_calls = 1 /\ session.narrator_calls = 1
    /\ Len(session.chat) = 3
    /\ session.chat[2].role = "user" /\ session.chat[3].role = "assistant"
    /\ (session.narrator_failed <=> session.chat[3].content = "Agent call failed")

\* C24 amended: the service is called at most once for planning and at most
\* once for narration; a failure of the narration call ends the request
\* with the failure message as the assistant's answer, a failure of the
\* planning call is replaced by the default plan and the narration is still
\* called; in every case exactly one user message and one assistant message
\* are appended and the filter selections stay as they were.
C24_OneCallEachAndOneAnswer ==
    /\ [](/\ session.planner_calls <= 1 /\ session.narrator_calls <= 1
           /\ (pc = "chat_wait" => Len(session.chat) = 1)
           /\ (pc = "chat_compute" => C24_Asked)
           /\ (pc = "chat_answered" => C24_Answered))
    /\ [][/\ session'.filters = session.filters
           /\ \A i \in 1..Len(session.chat) : session'.chat[i] = session.chat[i]]_vars

\* the planner call failed, the default plan was executed and the narrator
\* answered
C24_Witness ==
    /\ pc = "chat_answered"
    /\ plannerOut.k = "exception" /\ plan = build_default_plan
    /\ ~session.narrator_failed
    /\ session.chat[3] = Message("assistant", "narration")
    /\ session.filters.provinces # {}

\* ------------------------------------------------------------------------
\* Specification SpecOps: the dashboard run from the filters to one
\* operation of compute_operation on the filtered slice
\* ------------------------------------------------------------------------
\* the attribute values of the rows of customer_scored; nulls names the
\* numeric columns that hold no value (those columns are stored as 0, which
\* is what to_numeric(..).fillna(0) makes of them)
OpsProfiles ==
    {[gender |-> "Female", province |-> "Alberta", loyalty_card |-> "Star",
      rfm_segment |-> "Champions", is_cancelled |-> FALSE, clv |-> 9,
      churn_score |-> 1, recency |-> 1, frequency |-> 5, monetary |-> 30,
      tenure_months |-> 61, nulls |-> {}],
     [gender |-> "Male", province |-> "Ontario", loyalty_card |-> "Nova",
      rfm_segment |-> "At Risk", is_cancelled |-> TRUE, clv |-> 2,
      churn_score |-> 4, recency |-> 8, frequency |-> 1, monetary |-> 4,
      tenure_months |-> 6, nulls |-> {}],
     [gender |-> "Female", province |-> "Alberta", loyalty_card |-> "Aurora",
      rfm_segment |-> "Loyal", is_cancelled |-> FALSE, clv |-> 5,
      churn_score |-> 2, recency |-> 3, frequency |-> 3, monetary |-> 10,
      tenure_months |-> 7, nulls |-> {}],
     [gender |-> "Male", province |-> "Quebec", loyalty_card |-> "Nova",
      rfm_segment |-> "Dormant", is_cancelled |-> TRUE, clv |-> 2,
      churn_score |-> 6, recency |-> 14, frequency |-> 0, monetary |-> 0,
      tenure_months |-> 0, nulls |-> {}],
     [gender |-> "Female", province |-> NA, loyalty_card |-> "Star",
      rfm_segment |-> NA, is_cancelled |-> FALSE, clv |-> 0,
      churn_score |-> 3, recency |-> 0, frequency |-> 0, monetary |-> 0,
      tenure_months |-> 0,
      nulls |-> {"clv", "recency", "frequency", "monetary", "tenure_months"}],
     [gender |-> "Male", province |-> "Ontario", loyalty_card |-> "Aurora",
      rfm_segment |-> "Loyal", is_cancelled |-> TRUE, clv |-> 7,
      churn_score |-> 5, recency |-> 6, frequency |-> 2, monetary |-> 8,
      tenure_months |-> 60, nulls |-> {}]}

\* the tables load_customer_scored can return: one row per customer
OpsTables ==
    UNION {{{[loyalty_number |-> n] @@ f[n] : n \in C} : f \in [C -> OpsProfiles]} :
              C \in SUBSET (1..MaxCust)}

\* df_base = df.loc[mask]: an empty selection of a filter leaves it out
df_base(df, sel) ==
    {r \in df :
        /\ sel.provinces # {} => r.province \in sel.provinces
        /\ sel.segments # {} => r.rfm_segment \in sel.segments
        /\ sel.gender # "All" => r.gender = sel.gender
        /\ sel.cards # {} => r.loyalty_card \in sel.cards}

\* qcut without include_lowest: the smallest value falls in no bin
ClvTier_LowestExcluded(rows, r) ==
    LET v == SortedVals(rows, "clv")
        edge(k) == QuantileTimes(v, k, 3)
    IN  IF \E k \in 0..2 : edge(k) = edge(k + 1) THEN "All"
        ELSE IF 3 * r.clv <= edge(0) THEN NA
        ELSE IF 3 * r.clv <= edge(1) THEN "Low"
        ELSE IF 3 * r.clv <= edge(2) THEN "Medium"
        ELSE "High"

\* pd.qcut(clv_vals, q=3, labels=["Low", "Medium", "High"],
\* duplicates="drop") for the row r of rows, inside the try/except: when two
\* of the four quantile edges coincide the three labels no longer fit the
\* bins, qcut raises ValueError and the column becomes "All"
ClvTier(rows, r) ==
    LET v == SortedVals(rows, "clv")
        edge(k) == QuantileTimes(v, k, 3)
    IN  IF \E k \in 0..2 : edge(k) = edge(k + 1) THEN "All"
        ELSE IF 3 * r.clv <= edge(1) THEN "Low"
        ELSE IF 3 * r.clv <= edge(2) THEN "Medium"
        ELSE "High"

\* compute_operation(op_item, df, df_slice, baseline) for the operations
\* that return one mapping or a list of bands: the set of the outcomes the
\* call can have (a sort leaves the order of ties open, list(set) the order
\* of the set)
compute_operation(item, slice) ==
    LET op == item.op.s
        NotNull(rows, col) == {r \in rows : col \notin r.nulls}
        \* Series.mean(): nulls are skipped, NaN when nothing is left
        mean(rows, col) ==
            IF NotNull(rows, col) = {} THEN JNaN
            ELSE Mean(NotNull(rows, col), col)
        \* float(x.mean() or d): NaN is truthy, so only a mean of 0 gives d
        MeanOr(rows, col, d) ==
            LET m == mean(rows, col)
            IN  IF m = JNaN THEN JNaN
                ELSE IF m.num = 0 THEN Frac(d, 1) ELSE m
        \* out[c] = pd.to_numeric(out[c]).fillna(0)
        FillNa(x) == IF x = JNaN THEN Frac(0, 1) ELSE x
        Times(a, b) ==
            IF a = JNaN \/ b = JNaN THEN JNaN
            ELSE Frac(a.num * b.num, a.den * b.den)
        Over(a, b) ==
            IF a = JNaN \/ b = JNaN THEN JNaN
            ELSE Frac(a.num * b.den, a.den * b.num)
        \* round(n / d, 1) for d > 0, half to even, in tenths
        Round1(n, d) ==
            LET lo == (n * 10) \div d
                twice == 2 * ((n * 10) % d)
            IN  Frac(IF twice > d \/ (twice = d /\ lo % 2 = 1) THEN lo + 1 ELSE lo,
                     10)
        Abs(n) == IF n < 0 THEN -n ELSE n
    IN
    CASE op = "churn_by_clv_tier" ->
            LET tiers == {ClvTier(slice, r) : r \in slice}
                order == <<"Low", "Medium", "High", "All">>
                kept == SelectSeq(order, LAMBDA t : t \in tiers)
            IN  {Ok([i \in 1..Len(kept) |->
                        LET rows == {r \in slice : ClvTier(slice, r) = kept[i]}
                        IN  [clv_tier |-> kept[i],
                             customers |-> Frac(NUnique(rows), 1),
                             cancelled_rate |-> CancelledRate(rows),
                             avg_clv |-> FillNa(mean(rows, "clv")),
                             avg_churn_score |-> FillNa(mean(rows, "churn_score")),
                             total_clv |-> Frac(SumCol(rows, "clv"), 1)]])}
      [] op = "tenure_analysis" ->
            \* pd.cut(tenure_vals, bins=[0, 6, 12, 24, 36, 60, inf],
            \* include_lowest=True): right-closed bins, 0 in the first one
            LET bucket(r) ==
                    LET t == r.tenure_months
                    IN  IF t < 0 THEN NA
                        ELSE IF t <= 6 THEN "0-6 months"
                        ELSE IF t <= 12 THEN "7-12 months"
                        ELSE IF t <= 24 THEN "13-24 months"
                        ELSE IF t <= 36 THEN "25-36 months"
                        ELSE IF t <= 60 THEN "37-60 months"
                        ELSE "60+ months"
                out == {LET rows == {r \in slice : bucket(r) = b}
                        IN  [tenure_bucket |-> b,
                             customers |-> Frac(NUnique(rows), 1),
                             cancelled_rate |-> CancelledRate(rows),
                             avg_clv |-> FillNa(mean(rows, "clv")),
                             avg_churn_score |-> FillNa(mean(rows, "churn_score")),
                             total_value_at_risk |->
                                 Frac(SumCol(rows, "churn_score"), 1)] :
                        b \in {bucket(r) : r \in slice} \ {NA}}
            IN  {Ok(f) : f \in SortValues(out, "cancelled_rate", "tenure_bucket", FALSE)}
      [] op = "segment_comparison" ->
            LET valid_segments == {r.rfm_segment : r \in slice} \ {NA}
                requested_a == Get(item, "segment_a", JStr("Champions")).s
                requested_b == Get(item, "segment_b", JStr("At Risk")).s
                segment_stats(seg_name) ==
                    LET seg_data == {r \in slice : r.rfm_segment = seg_name}
                    IN  IF seg_data = {}
                        THEN [segment |-> seg_name, customers |-> Frac(0, 1)]
                        ELSE [segment |-> seg_name,
                              customers |-> Frac(NUnique(seg_data), 1),
                              avg_clv |-> Mean(seg_data, "clv"),
                              median_clv |-> Median(seg_data, "clv"),
                              total_clv |-> Frac(SumCol(seg_data, "clv"), 1),
                              avg_churn_score |-> MeanOr(seg_data, "churn_score", 0),
                              cancelled_rate |-> CancelledRate(seg_data),
                              avg_recency_days |->
                                  Times(MeanOr(seg_data, "recency", 0), Frac(30, 1)),
                              avg_frequency |-> MeanOr(seg_data, "frequency", 0),
                              avg_tenure_months |->
                                  MeanOr(seg_data, "tenure_months", 0)]
            IN  IF valid_segments = {}
                THEN \* list(valid_segments)[0] on the empty set
                     {Raise("IndexError")}
                ELSE \* first and last are list(valid_segments)[0] and [-1]
                     UNION {{Ok([segment_a |-> segment_stats(
                                   IF requested_a \in valid_segments THEN requested_a
                                   ELSE IF "Champions" \in valid_segments
                                   THEN "Champions" ELSE first),
                                 segment_b |-> segment_stats(
                                   IF requested_b \in valid_segments THEN requested_b
                                   ELSE IF "At Risk" \in valid_segments
                                   THEN "At Risk" ELSE last)]) :
                               last \in {x \in valid_segments :
                                   Cardinality(valid_segments) > 1 => x # first}} :
                            first \in valid_segments}
      [] op = "revenue_impact" ->
            LET total_customers == Frac(NUnique(slice), 1)
                cancelled_rate == CancelledRate(slice)
                avg_clv == MeanOr(slice, "clv", 0)
                projected_churned_customers == Times(total_customers, cancelled_rate)
                tenure == mean(slice, "tenure_months")
                \* max(1, (mean or 12) / 12); max(1, NaN) is 1
                avg_tenure_years ==
                    IF tenure = JNaN \/ tenure.num = 0 THEN Frac(1, 1)
                    ELSE Frac(Max2(12 * tenure.den, tenure.num), 12 * tenure.den)
                scored == NotNull(slice, "churn_score")
                \* 4 times Series.quantile(0.75) of churn_score
                q75 == QuantileTimes(SortedVals(scored, "churn_score"), 3, 4)
                high_risk == {r \in scored : 4 * r.churn_score > q75}
            IN  {Ok([total_customers |-> total_customers,
                     cancelled_rate |-> cancelled_rate,
                     avg_clv |-> avg_clv,
                     total_clv |-> Frac(SumCol(slice, "clv"), 1),
                     total_value_at_risk |-> Frac(SumCol(slice, "churn_score"), 1),
                     projected_churned_customers |-> projected_churned_customers,
                     projected_clv_loss |-> Times(projected_churned_customers, avg_clv),
                     projected_annual_loss |->
                         Times(projected_churned_customers,
                               Over(avg_clv, avg_tenure_years)),
                     high_risk_customers |-> Frac(NUnique(high_risk), 1),
                     high_risk_value_at_risk |->
                         Frac(SumCol(high_risk, "churn_score"), 1)])}
      [] op = "correlation_drivers" ->
            LET churned == {r \in slice : r.is_cancelled}
                retained == {r \in slice : ~r.is_cancelled}
                metrics == {"recency", "frequency", "monetary", "tenure_months", "clv"}
                diff_pct(c, r) ==
                    \* "if retained_avg != 0" is true of NaN
                    IF r = JNaN \/ c = JNaN THEN JNaN
                    ELSE IF r.num = 0 THEN Frac(0, 10)
                    ELSE Round1((c.num * r.den - r.num * c.den) * 100,
                                c.den * Abs(r.num))
                distribution(rows) ==
                    [g \in GroupKeys(rows, "rfm_segment") |->
                        Frac(NUnique(GroupRows(rows, "rfm_segment", g)), 1)]
            IN  {Ok([churned_count |-> Frac(NUnique(churned), 1),
                     retained_count |-> Frac(NUnique(retained), 1),
                     metrics_comparison |->
                         [m \in metrics |->
                             [churned_avg |-> MeanOr(churned, m, 0),
                              retained_avg |-> MeanOr(retained, m, 0),
                              difference_pct |->
                                  diff_pct(MeanOr(churned, m, 0),
                                           MeanOr(retained, m, 0))]],
                     churned_segment_distribution |-> distribution(churned),
                     retained_segment_distribution |-> distribution(retained)])}

InitOps ==
    /\ pc = "ops_start"
    /\ df_all \in OpsTables
    /\ selection \in
          {[provinces |-> p, segments |-> s, gender |-> g, cards |-> {}] :
              p \in SUBSET ({r.province : r \in df_all} \cap {"Alberta"}),
              s \in {{}} \cup {{x} : x \in {r.rfm_segment : r \in df_all}
                                              \cap {"Champions", "Dormant"}},
              g \in {"All"} \cup ({r.gender : r \in df_all} \cap {"Female"})}
    /\ ChatIdle /\ SanIdle /\ AggIdle /\ RfmIdle /\ SegIdle /\ PipeIdle
    /\ SessionIdle /\ AthenaIdle

\* the script run without the check of df_base.empty
ApplyFilters_NoStop ==
    /\ pc = "ops_start"
    /\ df_slice' = df_base(df_all, selection)
    /\ pc' = "ops_ready"
    /\ UNCHANGED <<plan_in, san_out, plannerOut, plan, planner_error, idx, passed,
                   computed, compute_errors, op_item, agg_out, cfa_df, clh_df,
                   features, features_again, scores, segment, local_files, s3, runs>>
    /\ UNCHANGED <<df_all, selection, kpis, session, query, steps>>

\* lines 277-294: the mask is applied; on an empty df_base the warning is
\* shown and st.stop() ends the script run
ApplyFilters ==
    /\ pc = "ops_start"
    /\ df_slice' = df_base(df_all, selection)
    /\ pc' = IF df_base(df_all, selection) = {} THEN "ops_stopped" ELSE "ops_ready"
    /\ UNCHANGED <<plan_in, san_out, plannerOut, plan, planner_error, idx, passed,
                   computed, compute_errors, op_item, agg_out, cfa_df, clh_df,
                   features, features_again, scores, segment, local_files, s3, runs>>
    /\ UNCHANGED <<df_all, selection, kpis, session, query, steps>>

\* the rest of the script: compute_operation is called on df_base for an
\* item of the plan
RunOperation ==
    /\ pc = "ops_ready"
    /\ \E item \in {JMap([op |-> JStr("correlation_drivers")]),
                    JMap([op |-> JStr("revenue_impact")]),
                    JMap([op |-> JStr("churn_by_clv_tier")]),
                    JMap([op |-> JStr("tenure_analysis")]),
                    JMap([op |-> JStr("segment_comparison")]),
                    JMap([op |-> JStr("segment_comparison"),
                          segment_a |-> JStr("Loyal"), segment_b |-> JStr("Dormant")]),
                    JMap([op |-> JStr("segment_comparison"),
                          segment_a |-> JStr("Gold"), segment_b |-> JStr("Silver")])} :
          /\ op_item' = item
          /\ agg_out' \in compute_operation(item.m, df_slice)
    /\ pc' = "ops_done"
    /\ UNCHANGED <<plan_in, san_out, plannerOut, plan, planner_error, idx, passed,
                   computed, compute_errors, df_slice, cfa_df, clh_df,
                   features, features_again, scores, segment, local_files, s3, runs>>
    /\ UNCHANGED <<df_all, selection, kpis, session, query, steps>>

NextOps == ApplyFilters \/ RunOperation

SpecOps == InitOps /\ [][NextOps]_vars

\* ------------------------------------------------------------------------
\* Claims about the empty slice and the operations on a non-empty slice
\* ------------------------------------------------------------------------
\* the call of the operation op has returned
Returned(op) ==
    pc = "ops_done" /\ op_item.m.op.s = op /\ agg_out.status = "ok"

\* every entry of the mapping m but those named in labels is a finite number
FiniteEntries(m, labels) == \A k \in DOMAIN m \ labels : m[k] # JNaN

\* C21 as stated: every numeric value in every result of compute_operation
\* is finite: an undefined average (an empty churned or retained group, an
\* all-null column) is returned as 0, and difference_pct is 0 whenever the
\* retained group has no defined non-zero average.
C21_Original ==
    /\ Returned("revenue_impact") => FiniteEntries(agg_out.val, {})
    /\ Returned("segment_comparison") =>
          /\ FiniteEntries(agg_out.val.segment_a, {"segment"})
          /\ FiniteEntries(agg_out.val.segment_b, {"segment"})
    /\ Returned("churn_by_clv_tier") =>
          \A i \in DOMAIN agg_out.val : FiniteEntries(agg_out.val[i], {"clv_tier"})
    /\ Returned("tenure_analysis") =>
          \A i \in DOMAIN agg_out.val :
              FiniteEntries(agg_out.val[i], {"tenure_bucket"})
    /\ Returned("correlation_drivers") =>
          \A m \in DOMAIN agg_out.val.metrics_comparison :
              LET c == agg_out.val.metrics_comparison[m]
                  retained == {r \in df_slice : ~r.is_cancelled /\ m \notin r.nulls}
              IN  /\ FiniteEntries(c, {})
                  /\ (retained = {} \/ SumCol(retained, m) = 0)
                        => c.difference_pct = Frac(0, 10)

\* C22: when the filter combination matches no customer the run ends in the
\* "adjust your filters" state and nothing is computed on the empty slice;
\* compute_operation is only called with a non-empty slice.
C22_EmptySliceStops ==
    /\ pc # "ops_start" =>
          (df_base(df_all, selection) = {} <=> pc = "ops_stopped")
    /\ pc = "ops_stopped" =>
          df_slice = {} /\ op_item = NoVal /\ agg_out = NoVal
    /\ pc \in {"ops_ready", "ops_done"} =>
          df_slice # {} /\ df_slice = df_base(df_all, selection)
    /\ pc = "ops_done" => agg_out # NoVal

\* a table with customers, and a province and a segment selected that no
\* customer has together
C22_Witness ==
    /\ pc = "ops_stopped"
    /\ df_all # {}
    /\ selection.provinces # {} /\ selection.segments # {}
    /\ df_base(df_all, [selection EXCEPT !.segments = {}]) # {}
    /\ df_base(df_all, [selection EXCEPT !.provinces = {}]) # {}

\* the call of the operation op is over, with a result or an exception
Called(op) == pc = "ops_done" /\ op_item.m.op.s = op

RECURSIVE BandCustomers(_)
BandCustomers(out) ==
    IF out = <<>> THEN 0 ELSE out[1].customers.num + BandCustomers(Tail(out))

\* C25: on a non-empty slice churn_by_clv_tier returns without error, its
\* tier labels are among Low, Medium, High or are the single label All, the
\* tiers' customers add up to the customers of the slice, and a slice of one
\* customer or of equal CLV values gives exactly one tier All with every
\* customer.
C25_TiersOrAll ==
    Called("churn_by_clv_tier") =>
        /\ agg_out.status = "ok"
        /\ LET out == agg_out.val
               labels == {out[i].clv_tier : i \in DOMAIN out}
           IN  /\ labels \subseteq {"Low", "Medium", "High"} \/ labels = {"All"}
               /\ Cardinality(labels) = Len(out)
               /\ BandCustomers(out) = NUnique(df_slice)
               /\ (\A r1, r2 \in df_slice : r1.clv = r2.clv) =>
                     /\ Len(out) = 1 /\ out[1].clv_tier = "All"
                     /\ out[1].customers = Frac(NUnique(df_slice), 1)

\* two customers of equal CLV come back as the one tier All
C25_Witness ==
    /\ Returned("churn_by_clv_tier")
    /\ Cardinality(df_slice) = 2
    /\ \A r \in df_slice : r.clv = 2
    /\ Len(agg_out.val) = 1 /\ agg_out.val[1].clv_tier = "All"
    /\ agg_out.val[1].customers = Frac(2, 1)

\* the segment names of the slice
PresentSegments == {r.rfm_segment : r \in df_slice} \ {NA}

\* what a requested name is replaced by: itself when present, else the
\* default when present, else a present segment
Replaces(requested, default, used) ==
    /\ used \in PresentSegments
    /\ requested \in PresentSegments => used = requested
    /\ (requested \notin PresentSegments /\ default \in PresentSegments)
          => used = default

\* C26 as stated: on a non-empty slice segment_comparison returns two stat
\* blocks whose segments occur in the slice, each with at least one
\* customer; an absent segment_a is replaced by Champions if present and
\* else by a present segment, an absent segment_b by At Risk if present and
\* else by a present segment; it does not fail when every rfm_segment of the
\* slice is null.
C26_Original ==
    Called("segment_comparison") =>
        /\ agg_out.status = "ok"
        /\ PresentSegments # {} =>
              /\ Replaces(Get(op_item.m, "segment_a", JStr("Champions")).s,
                          "Champions", agg_out.val.segment_a.segment)
              /\ Replaces(Get(op_item.m, "segment_b", JStr("At Risk")).s,
                          "At Risk", agg_out.val.segment_b.segment)
              /\ agg_out.val.segment_a.customers.num >= 1
              /\ agg_out.val.segment_b.customers.num >= 1

\* the rows of the slice that hold a tenure
WithTenure == {r \in df_slice : "tenure_months" \notin r.nulls}

\* a * b = c for fractions
ProductIs(a, b, c) == a.num * b.num * c.den = c.num * a.den * b.den

\* C27: in revenue_impact the divisor is max(1, average tenure in years), an
\* average tenure of 0 months counting as 1 year: on a slice with
\* non-negative CLV the divisor is at least 1, projected_annual_loss is at
\* most projected_clv_loss, and the two are equal when the average tenure is
\* at most 12 months.
C27_AnnualLossFloored ==
    (/\ Returned("revenue_impact")
     /\ \A r \in df_slice : "clv" \notin r.nulls /\ r.clv >= 0)
    => LET annual == agg_out.val.projected_annual_loss
           loss == agg_out.val.projected_clv_loss
           months == SumCol(WithTenure, "tenure_months")
           n == Cardinality(WithTenure)
       IN  /\ ~FracLess(loss, annual)
           /\ WithTenure # {} =>
                 /\ months <= 12 * n => ProductIs(annual, Frac(1, 1), loss)
                 /\ months > 12 * n => ProductIs(annual, Frac(months, 12 * n), loss)

\* a cancelled customer of 60 months: the annual loss is a fifth of the loss
C27_Witness ==
    /\ Returned("revenue_impact")
    /\ Cardinality(df_slice) = 1
    /\ \A r \in df_slice : r.tenure_months = 60 /\ r.nulls = {} /\ r.is_cancelled
    /\ agg_out.val.projected_clv_loss = Frac(7, 1)
    /\ ProductIs(agg_out.val.projected_annual_loss, Frac(5, 1),
                 agg_out.val.projected_clv_loss)

\* the band the claim gives a customer: a missing tenure counts as 0
BandOfTenure(r) ==
    LET t == IF "tenure_months" \in r.nulls THEN 0 ELSE r.tenure_months
    IN  IF t \in 0..6 THEN "0-6 months"
        ELSE IF t \in 7..12 THEN "7-12 months"
        ELSE IF t \in 13..24 THEN "13-24 months"
        ELSE IF t \in 25..36 THEN "25-36 months"
        ELSE IF t \in 37..60 THEN "37-60 months"
        ELSE "60+ months"

\* C28: tenure_analysis puts every customer of the slice in exactly one of
\* the six bands (0, a missing tenure and 6 in 0-6, 7 in 7-12, 60 in 37-60,
\* 61 in 60+), the bands' customers add up to the customers of the slice,
\* and the bands come ordered by cancellation rate from highest to lowest.
C28_BandsPartitionAndOrder ==
    Called("tenure_analysis") =>
        /\ agg_out.status = "ok"
        /\ LET out == agg_out.val
           IN  /\ {out[i].tenure_bucket : i \in DOMAIN out}
                     = {BandOfTenure(r) : r \in df_slice}
               /\ \A i, j \in DOMAIN out :
                     out[i].tenure_bucket = out[j].tenure_bucket => i = j
               /\ \A i \in DOMAIN out :
                     out[i].customers =
                         Frac(NUnique({r \in df_slice :
                                          BandOfTenure(r) = out[i].tenure_bucket}), 1)
               /\ BandCustomers(out) = NUnique(df_slice)
               /\ \A i, j \in DOMAIN out :
                     i < j => ~FracLess(out[i].cancelled_rate, out[j].cancelled_rate)

\* customers of 6, 60 and 61 months: three bands, the cancelled ones first
C28_Witness ==
    /\ Returned("tenure_analysis")
    /\ {r.tenure_months : r \in df_slice} = {6, 60, 61}
    /\ Len(agg_out.val) = 3
    /\ agg_out.val[3].tenure_bucket = "60+ months"
    /\ {agg_out.val[1].tenure_bucket, agg_out.val[2].tenure_bucket}
          = {"0-6 months", "37-60 months"}

\* ------------------------------------------------------------------------
\* Claims about run_sql_file and the order of main()
\* ------------------------------------------------------------------------
\* the steps of main() in the order of the claim
MainOrder ==
    <<"pipe_create_database", "pipe_upload", "pipe_parquet", "pipe_features",
      "pipe_create_table", "pipe_segment_distribution", "pipe_at_high_risk",
      "pipe_segment_by_province", "pipe_scoring">>

\* the steps that are Athena statements
SqlSteps ==
    {"pipe_create_database", "pipe_create_table", "pipe_segment_distribution",
     "pipe_at_high_risk", "pipe_segment_by_province"}

\* run_sql_file is polling a query
Polling == pc \in SqlSteps /\ query # NoVal

\* the steps completed are an initial part of the order and the running step
\* is the next one; a finished run has completed them all, a failed one not
C30_Order ==
    /\ Len(steps) <= Len(MainOrder)
    /\ steps = SubSeq(MainOrder, 1, Len(steps))
    /\ pc \in {MainOrder[i] : i \in 1..Len(MainOrder)} =>
          pc = MainOrder[Len(steps) + 1]
    /\ pc = "pipe_done" => steps = MainOrder
    /\ pc = "pipe_failed" => Len(steps) < Len(MainOrder)
    /\ pc = "pipe_scoring" =>
          \A st \in SqlSteps \cup {"pipe_features"} :
              \E i \in 1..Len(steps) : steps[i] = st
    /\ query # NoVal => pc \in SqlSteps /\ query.sql = pc

\* run_sql_file leaves its loop only on a terminal state: it returns on
\* SUCCEEDED and the step is completed, it raises on FAILED or CANCELLED and
\* main ends; a failed main completes no further step
C30_Step ==
    /\ Polling /\ query.state \in {"QUEUED", "RUNNING"} => pc' = pc
    /\ Polling /\ pc' # pc =>
          \/ query.state = "SUCCEEDED" /\ steps' = Append(steps, pc)
          \/ /\ query.state \in {"FAILED", "CANCELLED"}
             /\ pc' = "pipe_failed" /\ steps' = steps
    /\ pc = "pipe_failed" =>
          \/ pc' = "pipe_failed" /\ steps' = steps
          \/ pc' = MainOrder[1] /\ steps' = <<>>

\* C30: run_sql_file returns only after the query reached SUCCEEDED and
\* raises RuntimeError on FAILED or CANCELLED; it polls as long as the query
\* is in another state and ends once the query is in a terminal state; main
\* runs create database, upload, CSV-to-parquet, build features, create
\* table and views, scoring job in this order, a step that raises prevents
\* every later step, and the scoring job starts only after the feature step
\* and all Athena statements have completed.
C30_PollingAndOrder ==
    /\ []C30_Order
    /\ [][C30_Step]_vars
    /\ (Polling /\ query.state \in {"SUCCEEDED", "FAILED", "CANCELLED"})
          ~> (query = NoVal)

\* a run in which every statement succeeded and the scoring job returned
C30_Witness ==
    /\ pc = "pipe_done"
    /\ steps = MainOrder
    /\ query = NoVal

====
